---- MODULE Spec2Model ----
(***************************************************************************)
(* Model of the Jumia warranty scraper (src/streamlit_app.py), of the      *)
(* category resolver (src/pages/products.py) and of the SKU category       *)
(* splitter (src/pages/live.py).                                           *)
(*                                                                         *)
(* Text is modelled as sequences of one-character strings, so that the     *)
(* string operations of the program (strip, lower, substring tests,        *)
(* regular expressions, re.sub) are computed and not assumed.  A parsed    *)
(* document is modelled as a small element tree.                           *)
(***************************************************************************)
EXTENDS Integers, Sequences, FiniteSets, TLC

VARIABLES
    pp_page,    \* parse_product: the product page behind the URL
    pp_pc,      \* parse_product: "start" | "done" | "raised"
    pp_basic,   \* parse_product: what extract_basic_fields returned
    pp_warr,    \* parse_product: what extract_warranty_fields returned
    pp_rec,     \* parse_product: the returned record
    pg_soup,    \* parse_links_from_grid: the listing page
    pg_pc,      \* parse_links_from_grid: "start" | "grid" | "cards" | "generic"
    pg_links,   \* parse_links_from_grid: the returned links
    cl_src,     \* get_product_links: the listing source, "finite" | "fresh"
    cl_stack,   \* get_product_links: the frames of the calls in progress
    cl_pc,      \* get_product_links: "running" | "returned"
    cl_ret,     \* get_product_links: the list returned to the page script
    cl_last,    \* get_product_links: how the last call to return ended
    cl_reqs,    \* get_product_links: the calls of fetch_page of the last step
    cl_gap,     \* get_product_links: the last of fetch_page and time.sleep called
    pool_links, \* scrape loop: links, the collected URLs
    pool_pages, \* scrape loop: the product page behind each URL
    pool_fut,   \* scrape loop: the futures, one for each URL
    pool_results, \* scrape loop: results
    pool_prog,  \* scrape loop: the progress reports, (i + 1, total)
    pool_pc,    \* scrape loop: "submit" | "collect" | "complete" | "aborting" | "aborted"
    stop_requested, \* crawl: the user has asked for the crawl to be cancelled
    rc_args,    \* resolve_category: the arguments of the call
    rc_pc,      \* resolve_category: "start", or the layer that returned
    rc_ret,     \* resolve_category: the returned (category_id, matched_name, method)
    sc_url,     \* Scrape Category: category_url, the text of the input
    sc_pc,      \* Scrape Category: "start" | "invalid" | "excluded" | "collecting"
    sc_fetched, \* Scrape Category: the URLs fetch_page was called with
    sm_text,    \* strip_modifiers: text, the argument of the call
    sm_pc,      \* strip_modifiers: "start" | "returned"
    sm_ret,     \* strip_modifiers: the returned string
    sm_calls,   \* strip_modifiers: the calls made so far
    sp_in,      \* SKU splitter: the interpreter, the uploaded rows, the columns chosen
    sp_pc,      \* SKU splitter: "load" | "syntax_error" | "error" | "writing" | "done"
    sp_todo,    \* SKU splitter: the categories the loop has still to write
    sp_zip      \* SKU splitter: the members of the zip file, in order

productVars == <<pp_page, pp_pc, pp_basic, pp_warr, pp_rec>>
gridVars == <<pg_soup, pg_pc, pg_links>>
linkVars == <<cl_src, cl_stack, cl_pc, cl_ret, cl_last, cl_reqs, cl_gap>>
poolVars == <<pool_links, pool_pages, pool_fut, pool_results, pool_prog, pool_pc>>
crawlVars == <<stop_requested>>
categoryVars == <<rc_args, rc_pc, rc_ret>>
buttonVars == <<sc_url, sc_pc, sc_fetched>>
stripVars == <<sm_text, sm_pc, sm_ret, sm_calls>>
splitterVars == <<sp_in, sp_pc, sp_todo, sp_zip>>
vars == <<productVars, gridVars, linkVars, poolVars, crawlVars, categoryVars, buttonVars, stripVars, splitterVars>>
otherThanProduct == <<gridVars, linkVars, poolVars, crawlVars, categoryVars, buttonVars, stripVars, splitterVars>>
otherThanGrid == <<productVars, linkVars, poolVars, crawlVars, categoryVars, buttonVars, stripVars, splitterVars>>
otherThanLinks == <<productVars, gridVars, poolVars, crawlVars, categoryVars, buttonVars, stripVars, splitterVars>>
otherThanPool == <<productVars, gridVars, linkVars, crawlVars, categoryVars, buttonVars, stripVars, splitterVars>>
otherThanCategory == <<productVars, gridVars, linkVars, poolVars, crawlVars, buttonVars, stripVars, splitterVars>>
otherThanButton == <<productVars, gridVars, linkVars, poolVars, crawlVars, categoryVars, stripVars, splitterVars>>
otherThanStrip == <<productVars, gridVars, linkVars, poolVars, crawlVars, categoryVars, buttonVars, splitterVars>>
otherThanSplitter == <<productVars, gridVars, linkVars, poolVars, crawlVars, categoryVars, buttonVars, stripVars>>

\* the parts of the program a specification does not run
IdleProduct ==
    /\ pp_page = <<>> /\ pp_pc = "idle" /\ pp_basic = <<>> /\ pp_warr = <<>> /\ pp_rec = <<>>
IdleGrid == pg_soup = <<>> /\ pg_pc = "idle" /\ pg_links = {}
IdleLinks ==
    /\ cl_src = "none" /\ cl_stack = <<>> /\ cl_pc = "idle" /\ cl_ret = <<>> /\ cl_last = <<>>
    /\ cl_reqs = <<>> /\ cl_gap = "none"
IdlePool ==
    /\ pool_links = <<>> /\ pool_pages = <<>> /\ pool_fut = <<>>
    /\ pool_results = <<>> /\ pool_prog = <<>> /\ pool_pc = "idle"
NotStopped == stop_requested = FALSE
IdleCategory == rc_args = <<>> /\ rc_pc = "idle" /\ rc_ret = <<>>
IdleButton == sc_url = <<>> /\ sc_pc = "idle" /\ sc_fetched = {}
IdleStrip == sm_text = <<>> /\ sm_pc = "idle" /\ sm_ret = <<>> /\ sm_calls = 0
IdleSplitter == sp_in = <<>> /\ sp_pc = "idle" /\ sp_todo = <<>> /\ sp_zip = <<>>
IdleButProduct == IdleGrid /\ IdleLinks /\ IdlePool /\ NotStopped /\ IdleCategory /\ IdleButton /\ IdleStrip /\ IdleSplitter
IdleButGrid == IdleProduct /\ IdleLinks /\ IdlePool /\ NotStopped /\ IdleCategory /\ IdleButton /\ IdleStrip /\ IdleSplitter
IdleButLinks == IdleProduct /\ IdleGrid /\ IdlePool /\ NotStopped /\ IdleCategory /\ IdleButton /\ IdleStrip /\ IdleSplitter
IdleButPool == IdleProduct /\ IdleGrid /\ IdleLinks /\ NotStopped /\ IdleCategory /\ IdleButton /\ IdleStrip /\ IdleSplitter
IdleButCategory ==
    IdleProduct /\ IdleGrid /\ IdleLinks /\ IdlePool /\ NotStopped /\ IdleButton /\ IdleStrip /\ IdleSplitter
IdleButButton ==
    IdleProduct /\ IdleGrid /\ IdleLinks /\ IdlePool /\ NotStopped /\ IdleCategory /\ IdleStrip /\ IdleSplitter
IdleButStrip ==
    IdleProduct /\ IdleGrid /\ IdleLinks /\ IdlePool /\ NotStopped /\ IdleCategory /\ IdleButton /\ IdleSplitter
IdleButSplitter ==
    IdleProduct /\ IdleGrid /\ IdleLinks /\ IdlePool /\ NotStopped /\ IdleCategory /\ IdleButton /\ IdleStrip

(***************************************************************************)
(* Strings                                                                 *)
(***************************************************************************)
NotIndicated == <<"N","o","t"," ","i","n","d","i","c","a","t","e","d">>
ErrorFetching == <<"E","r","r","o","r"," ","f","e","t","c","h","i","n","g"," ","p","a","g","e">>
s_Jumia == <<"J","u","m","i","a">>
s_follow == <<"f","o","l","l","o","w">>
s_rating == <<"r","a","t","i","n","g">>
s_score == <<"s","c","o","r","e">>
s_seller == <<"s","e","l","l","e","r">>
s_warranty == <<"w","a","r","r","a","n","t","y">>
s_warranty_address == <<"w","a","r","r","a","n","t","y"," ","a","d","d","r","e","s","s">>
s_yr == <<"y","r">>
s_year == <<"y","e","a","r">>
s_month == <<"m","o","n","t","h">>
s_mo == <<"m","o">>
s_JumiaExpress == <<"J","u","m","i","a"," ","E","x","p","r","e","s","s">>

UpperLetters == <<"A","B","C","D","E","F","G","H","I","J","K","L","M",
                  "N","O","P","Q","R","S","T","U","V","W","X","Y","Z">>
LowerLetters == <<"a","b","c","d","e","f","g","h","i","j","k","l","m",
                  "n","o","p","q","r","s","t","u","v","w","x","y","z">>

IsDigit(c) == c \in {"0","1","2","3","4","5","6","7","8","9"}
IsSpace(c) == c \in {" ", "\t", "\n"}
IsLetter(c) == \E i \in 1..26 : c = UpperLetters[i] \/ c = LowerLetters[i]
\* \w of the re module
IsWordChar(c) == IsDigit(c) \/ IsLetter(c) \/ c = "_"

LowerChar(c) ==
    IF \E i \in 1..26 : UpperLetters[i] = c
    THEN LowerLetters[CHOOSE i \in 1..26 : UpperLetters[i] = c]
    ELSE c

\* str.lower()
Lower(s) == [i \in 1..Len(s) |-> LowerChar(s[i])]

RECURSIVE LStrip(_)
LStrip(s) == IF s # <<>> /\ IsSpace(Head(s)) THEN LStrip(Tail(s)) ELSE s

RECURSIVE RStrip(_)
RStrip(s) ==
    IF s # <<>> /\ IsSpace(s[Len(s)]) THEN RStrip(SubSeq(s, 1, Len(s) - 1)) ELSE s

\* str.strip()
Strip(s) == RStrip(LStrip(s))

\* the literal lit occurs in s at position i
MatchAt(s, i, lit) ==
    /\ i >= 1
    /\ i + Len(lit) - 1 <= Len(s)
    /\ SubSeq(s, i, i + Len(lit) - 1) = lit

\* lit in s
Contains(s, lit) == \E i \in 1..(Len(s) + 1) : MatchAt(s, i, lit)

\* s.endswith(suf)
EndsWith(s, suf) == MatchAt(s, Len(s) - Len(suf) + 1, suf)

\* s.startswith(pre)
StartsWith(s, pre) == MatchAt(s, 1, pre)

RECURSIVE Join(_, _)
\* sep.join(strs)
Join(strs, sep) ==
    IF strs = <<>> THEN <<>>
    ELSE IF Len(strs) = 1 THEN strs[1]
    ELSE strs[1] \o sep \o Join(Tail(strs), sep)

RECURSIVE Concat(_)
Concat(strs) == IF strs = <<>> THEN <<>> ELSE Head(strs) \o Concat(Tail(strs))

\* first index after i - 1 at which s holds no character of the class
RECURSIVE SkipDigits(_, _)
SkipDigits(s, i) ==
    IF i <= Len(s) /\ IsDigit(s[i]) THEN SkipDigits(s, i + 1) ELSE i

RECURSIVE SkipSpaces(_, _)
SkipSpaces(s, i) ==
    IF i <= Len(s) /\ IsSpace(s[i]) THEN SkipSpaces(s, i + 1) ELSE i

(***************************************************************************)
(* Python values: a str, None, or a number (kept as its digits).  A JSON   *)
(* object's missing key is Absent.                                         *)
(***************************************************************************)
PyStr(s) == [k |-> "str", s |-> s]
PyNum(d) == [k |-> "num", s |-> d]
PyNone == [k |-> "none", s |-> <<>>]
Absent == [k |-> "absent", s |-> <<>>]
NA == PyStr(NotIndicated)

\* bool(v)
Truthy(v) ==
    \/ v.k = "str" /\ v.s # <<>>
    \/ v.k = "num" /\ v.s # <<"0">>

\* dict.get(key, default), v the value under the key or Absent
DictGet(v, default) == IF v.k = "absent" THEN default ELSE v

\* a or b
PyOr(a, b) == IF Truthy(a) THEN a ELSE b

(***************************************************************************)
(* Documents: an element has a tag, one class, an alt attribute (img),     *)
(* a data-price attribute flag, its own text and its child elements.       *)
(***************************************************************************)
El(tag, cls, text, kids) ==
    [tag |-> tag, cls |-> cls, alt |-> <<>>, dp |-> FALSE, text |-> text, kids |-> kids]
Img(alt) ==
    [tag |-> "img", cls |-> "", alt |-> alt, dp |-> FALSE, text |-> <<>>, kids |-> <<>>]
NoNode == El("none", "", <<>>, <<>>)

RECURSIVE Walk(_, _)
\* the descendants in document order, each with its next sibling element
\* and the tag/class pairs of its ancestors
Walk(nodes, anc) ==
    IF nodes = <<>> THEN <<>>
    ELSE LET n == Head(nodes)
             nx == IF Len(nodes) > 1 THEN nodes[2] ELSE NoNode
         IN <<[n |-> n, nx |-> nx, anc |-> anc]>>
            \o Walk(n.kids, anc \cup {<<n.tag, n.cls>>})
            \o Walk(Tail(nodes), anc)

RECURSIVE Strings(_)
\* Tag._all_strings(strip=True): the stripped, non-empty strings below a node
Strings(n) ==
    (IF Strip(n.text) # <<>> THEN <<Strip(n.text)>> ELSE <<>>)
    \o (IF n.kids = <<>> THEN <<>>
        ELSE Concat([i \in 1..Len(n.kids) |-> Strings(n.kids[i])]))

\* node.get_text(sep, strip=True)
GetText(n, sep) == Join(Strings(n), sep)

\* the first entry of a walk that is marked in keep (NoNode if none); keep
\* tells for each entry whether the selector matches it
FirstEntry(w, keep) ==
    IF \E i \in 1..Len(w) : keep[i]
    THEN w[CHOOSE i \in 1..Len(w) : keep[i] /\ \A j \in 1..(i - 1) : ~keep[j]]
    ELSE [n |-> NoNode, nx |-> NoNode, anc |-> {}]

RECURSIVE FilterBy(_, _)
FilterBy(w, keep) ==
    IF w = <<>> THEN <<>>
    ELSE (IF Head(keep) THEN <<Head(w)>> ELSE <<>>) \o FilterBy(Tail(w), Tail(keep))

\* the entries of a walk that are marked in keep, in document order
SelectEntries(w, keep) == FilterBy(w, keep)

(***************************************************************************)
(* A product page as parse_product sees it:                                *)
(*   fetch  what fetch_page returns: "ok" (the text), "none" (an error or  *)
(*          a non-success status), "empty" (an empty body);                *)
(*   ld     the Product objects find_product_objs_from_ldjson returns;     *)
(*   dom    the elements of main_content, in document order.               *)
(* A Product object holds name, sku and offers; offers is absent, a dict   *)
(* or something else (k = "other"), and so is offers.seller.               *)
(***************************************************************************)
Seller(k, name) == [k |-> k, name |-> name]
Offers(k, price, seller) == [k |-> k, price |-> price, seller |-> seller]
Product(name, sku, offers) == [name |-> name, sku |-> sku, offers |-> offers]
NoSeller == Seller("absent", Absent)
NoOffers == Offers("absent", Absent, NoSeller)

\* text_or_na(node)
text_or_na(node) ==
    IF node = NoNode THEN NotIndicated
    ELSE LET t == GetText(node, <<" ">>) IN IF t # <<>> THEN t ELSE NotIndicated

\* parse_data_layer: the pattern dataLayer\s*=\s*($$ .*? $$); asks for a space
\* after an end-of-text anchor, so re.search never matches and the function
\* returns its empty dict for every document.
parse_data_layer(page) == [products |-> <<>>]

Raised == [k |-> "raise", s |-> <<>>]

\* re.sub(r'[^\d,.]', '', s)
ReSubPrice(s) == SelectSeq(s, LAMBDA c : IsDigit(c) \/ c = "," \/ c = ".")

\* clean_price(price_str); Raised is the TypeError re.sub raises for a value
\* that is not a str
clean_price(v) ==
    IF ~Truthy(v) \/ v = NA THEN NA
    ELSE IF v.k # "str" THEN Raised
    ELSE PyStr(SelectSeq(ReSubPrice(v.s), LAMBDA c : c # ","))

H1Sel(e) == e.n.tag = "h1"
PriceSel(e) ==
    \/ e.n.tag = "span" /\ (e.n.cls \in {"-b", "price"} \/ e.n.dp)
    \/ e.n.tag = "div" /\ e.n.cls \in {"price", "-prc"}
SellerSel(e) ==
    \/ e.n.tag = "div" /\ e.n.cls \in {"seller-info", "-seller", "seller-details"}
    \/ e.n.tag = "p" /\ e.n.cls = "seller-name"
    \/ e.n.tag = "a" /\ e.n.cls = "seller-link"
    \/ e.n.tag = "span" /\ e.n.cls = "seller"
TextSel(e) == e.n.tag \in {"p", "div", "span"}
ExpressSel(e) == e.n.tag = "img" /\ Contains(e.n.alt, s_JumiaExpress)

\* mutant: the test for "follow" without lower()
SellerAccepted_CaseSensitive(seller_text) == ~Contains(seller_text, s_follow)

\* the seller node's text is accepted unless it holds "follow"
SellerAccepted(seller_text) == ~Contains(Lower(seller_text), s_follow)

\* the textual scan of lines 254-258: the first p/div/span whose text holds
\* "seller" and none of "follow", "rating", "score"
SellerScanSel(e) ==
    /\ TextSel(e)
    /\ LET text == Lower(GetText(e.n, <<>>))
       IN /\ Contains(text, s_seller)
          /\ ~Contains(text, s_follow)
          /\ ~Contains(text, s_rating)
          /\ ~Contains(text, s_score)

WarrantyHeadingSel(e) ==
    TextSel(e) /\ Contains(Lower(GetText(e.n, <<>>)), s_warranty)
WarrantyAddressSel(e) ==
    TextSel(e) /\ Contains(Lower(GetText(e.n, <<>>)), s_warranty_address)
\* div.-pdp-add-info tr, table.specifications tr, div.-spec
SpecRowSel(e) ==
    \/ e.n.tag = "tr" /\ (<<"div", "-pdp-add-info">> \in e.anc
                          \/ <<"table", "specifications">> \in e.anc)
    \/ e.n.tag = "div" /\ e.n.cls = "-spec"
DescSel(e) == e.n.tag = "div" /\ e.n.cls \in {"markup", "-product-desc", "description"}
TdSel(e) == e.n.tag = "td"

\* tr.find_all("td")
Cells(row) ==
    LET cw == Walk(row.kids, {})
    IN SelectEntries(cw, [i \in 1..Len(cw) |-> TdSel(cw[i])])

\* a row whose two cells start with a label holding "warranty" (line 278)
WarrantyRow(e) ==
    /\ SpecRowSel(e)
    /\ Len(Cells(e.n)) = 2
    /\ Contains(Lower(GetText(Cells(e.n)[1].n, <<>>)), s_warranty)

\* whether the entry e of a walk matches the selector (or find predicate) sel
Matches(e, sel) ==
    CASE sel = "h1" -> H1Sel(e)
      [] sel = "price" -> PriceSel(e)
      [] sel = "seller" -> SellerSel(e)
      [] sel = "seller text" -> SellerScanSel(e)
      [] sel = "express" -> ExpressSel(e)
      [] sel = "warranty heading" -> WarrantyHeadingSel(e)
      [] sel = "warranty address" -> WarrantyAddressSel(e)
      [] sel = "warranty row" -> WarrantyRow(e)
      [] sel = "description" -> DescSel(e)

\* main_content.select_one(sel) / main_content.find(sel), w the walk of
\* main_content: the first match with its next sibling, NoNode if none
select_one(w, sel) == FirstEntry(w, [i \in 1..Len(w) |-> Matches(w[i], sel)])

\* mutant: the ld+json step reads keys the Product object does not have
LdFields_WrongKeys(page) == [name |-> NA, price |-> NA, sku |-> NA, seller |-> NA]

\* the values of name, price, sku, seller after the ld+json step (lines 231-240)
LdFields(page) ==
    LET dl == parse_data_layer(page)
        none == [name |-> NA, price |-> NA, sku |-> NA, seller |-> NA]
        init == IF dl.products # <<>> THEN dl.products[1] ELSE none
    IN IF page.ld = <<>> THEN init
       ELSE LET p == page.ld[1]
            IN [name |-> DictGet(p.name, init.name),
                sku |-> DictGet(p.sku, init.sku),
                price |-> IF p.offers.k = "dict"
                          THEN DictGet(p.offers.price, init.price) ELSE init.price,
                seller |-> IF p.offers.k = "dict" /\ p.offers.seller.k = "dict"
                           THEN DictGet(p.offers.seller.name, init.seller)
                           ELSE init.seller]

\* the seller of the HTML fallback (lines 247-260), given the seller so far
SellerFallback(w, seller) ==
    LET seller_node == select_one(w, "seller").n
        s1 == IF seller # NA THEN seller
              ELSE IF seller_node # NoNode
                   THEN (IF SellerAccepted(text_or_na(seller_node))
                         THEN PyStr(text_or_na(seller_node)) ELSE seller)
                   ELSE (IF \E i \in 1..Len(w) : SellerScanSel(w[i])
                         THEN PyStr(text_or_na(select_one(w, "seller text").n))
                         ELSE seller)
    IN IF s1 = NA /\ select_one(w, "express").n # NoNode THEN PyStr(s_Jumia) ELSE s1

\* extract_basic_fields(soup): raised tells that clean_price raised
extract_basic_fields(page) ==
    LET w == Walk(page.dom, {})
        ld == LdFields(page)
        name == IF ld.name = NA THEN PyStr(text_or_na(select_one(w, "h1").n)) ELSE ld.name
        price == IF ld.price = NA THEN PyStr(text_or_na(select_one(w, "price").n))
                 ELSE ld.price
        seller == SellerFallback(w, ld.seller)
        cp == clean_price(price)
    IN [raised |-> cp = Raised, name |-> name, price |-> cp, sku |-> ld.sku,
        seller |-> seller]

\* mutant: the title pattern without the month unit
TitleRe_NoMonth(s) ==
    LET l == Lower(s)
    IN \/ Contains(l, s_warranty)
       \/ \E i \in 1..Len(l) :
            /\ IsDigit(l[i])
            /\ i = 1 \/ ~IsWordChar(l[i - 1])
            /\ LET j == SkipDigits(l, i)
               IN \/ MatchAt(l, j, s_yr) \/ MatchAt(l, j, s_year)
                  \/ j <= Len(l) /\ IsSpace(l[j])
                        /\ (MatchAt(l, j + 1, s_yr) \/ MatchAt(l, j + 1, s_year))

\* re.search(r"(warranty|\b\d+\s?(yr|year|month))", s, re.I) finds a match
UnitAt(l, j) == MatchAt(l, j, s_yr) \/ MatchAt(l, j, s_year) \/ MatchAt(l, j, s_month)
TitleRe(s) ==
    LET l == Lower(s)
    IN \/ Contains(l, s_warranty)
       \/ \E i \in 1..Len(l) :
            /\ IsDigit(l[i])
            /\ i = 1 \/ ~IsWordChar(l[i - 1])
            /\ LET j == SkipDigits(l, i)
               IN \/ UnitAt(l, j)
                  \/ j <= Len(l) /\ IsSpace(l[j]) /\ UnitAt(l, j + 1)

\* The pattern of line 286,
\*   warranty\s*[:\-]?\s*(\d+\s*(year|month|yr|mo)s?\s*(?:warranty)?)
\* matched from position i on, piece by piece; each operator returns the end
\* (exclusive) of the match, or 0 when there is none.
\* (?:warranty)? from j on
DescReWarranty(s, j) == IF MatchAt(s, j, s_warranty) THEN j + Len(s_warranty) ELSE j
\* s?\s* from j on, j the end of the unit
DescRePlural(s, j) ==
    DescReWarranty(s, SkipSpaces(s, IF j <= Len(s) /\ s[j] = "s" THEN j + 1 ELSE j))
\* (year|month|yr|mo) from j on
DescReUnit(s, j) ==
    IF MatchAt(s, j, s_year) THEN DescRePlural(s, j + Len(s_year))
    ELSE IF MatchAt(s, j, s_month) THEN DescRePlural(s, j + Len(s_month))
    ELSE IF MatchAt(s, j, s_yr) THEN DescRePlural(s, j + Len(s_yr))
    ELSE IF MatchAt(s, j, s_mo) THEN DescRePlural(s, j + Len(s_mo))
    ELSE 0
\* \d+\s* from j on
DescReDigits(s, j) ==
    IF SkipDigits(s, j) = j THEN 0 ELSE DescReUnit(s, SkipSpaces(s, SkipDigits(s, j)))
\* [:\-]?\s* from j on
DescReColon(s, j) ==
    DescReDigits(s, SkipSpaces(s, IF j <= Len(s) /\ s[j] \in {":", "-"} THEN j + 1 ELSE j))
DescReEnd(s, i) ==
    IF ~MatchAt(s, i, s_warranty) THEN 0
    ELSE DescReColon(s, SkipSpaces(s, i + Len(s_warranty)))

\* match.group(0) of the leftmost match in s, or <<>> when there is none
DescRe(s) ==
    LET ends == [i \in 1..Len(s) |-> DescReEnd(s, i)]
    IN IF \E i \in 1..Len(s) : ends[i] > 0
       THEN LET i == CHOOSE i \in 1..Len(s) :
                       ends[i] > 0 /\ \A j \in 1..(i - 1) : ends[j] = 0
            IN SubSeq(s, i, ends[i] - 1)
       ELSE <<>>

\* warranty_title of line 268, for a title that is a str or falsy
WarrantyTitle(title_text) ==
    IF TitleRe(IF Truthy(title_text) THEN title_text.s ELSE <<>>)
    THEN title_text ELSE NA

\* warranty_specs of lines 271-288
WarrantySpecs(w) ==
    LET heading == select_one(w, "warranty heading")
        s1 == IF heading.n # NoNode /\ heading.nx # NoNode
              THEN text_or_na(heading.nx) ELSE NotIndicated
        s2 == IF s1 = NotIndicated /\ \E i \in 1..Len(w) : WarrantyRow(w[i])
              THEN GetText(Cells(select_one(w, "warranty row").n)[2].n, <<>>)
              ELSE s1
        desc == select_one(w, "description").n
        m == IF desc # NoNode THEN DescRe(Lower(GetText(desc, <<>>))) ELSE <<>>
    IN IF s2 = NotIndicated /\ desc # NoNode /\ m # <<>> THEN m ELSE s2

\* warranty_address of lines 290-292
WarrantyAddress(w) ==
    LET node == select_one(w, "warranty address")
    IN IF node.n = NoNode THEN NotIndicated
       ELSE text_or_na(IF node.nx # NoNode THEN node.nx ELSE node.n)

\* extract_warranty_fields(soup, title_text): raised tells that re.search raised
\* the TypeError of a title that is truthy and not a str
extract_warranty_fields(page, title_text) ==
    LET w == Walk(page.dom, {})
    IN IF Truthy(title_text) /\ title_text.k # "str"
       THEN [raised |-> TRUE, title |-> NA, specs |-> NA, address |-> NA]
       ELSE [raised |-> FALSE,
             title |-> WarrantyTitle(title_text),
             specs |-> PyStr(WarrantySpecs(w)),
             address |-> PyStr(WarrantyAddress(w))]

DataFields == {"title", "sku", "seller", "price", "wtitle", "wspecs", "waddr"}

\* the record of line 299
ErrorRecord(url) ==
    [title |-> PyStr(ErrorFetching), sku |-> PyStr(ErrorFetching),
     seller |-> PyStr(ErrorFetching), price |-> PyStr(ErrorFetching),
     wtitle |-> PyStr(ErrorFetching), wspecs |-> PyStr(ErrorFetching),
     waddr |-> PyStr(ErrorFetching), url |-> url]

\* the record of lines 303-312
ProductRecord(url, b, wf) ==
    [title |-> PyOr(b.name, NA), sku |-> PyOr(b.sku, NA), seller |-> PyOr(b.seller, NA),
     price |-> PyOr(b.price, NA), wtitle |-> PyOr(wf.title, NA),
     wspecs |-> PyOr(wf.specs, NA), waddr |-> PyOr(wf.address, NA), url |-> url]

NoRecord == [title |-> PyNone, sku |-> PyNone, seller |-> PyNone, price |-> PyNone,
             wtitle |-> PyNone, wspecs |-> PyNone, waddr |-> PyNone, url |-> 0]
NoBasic == [raised |-> FALSE, name |-> PyNone, price |-> PyNone, sku |-> PyNone,
            seller |-> PyNone]
NoWarranty == [raised |-> FALSE, title |-> PyNone, specs |-> PyNone, address |-> PyNone]

\* lines 302-312, b what extract_basic_fields returned and wf what
\* extract_warranty_fields returned
ParseWarranty(url, b, wf) ==
    IF wf.raised THEN [raised |-> TRUE, rec |-> NoRecord, basic |-> b, warr |-> NoWarranty]
    ELSE [raised |-> FALSE, rec |-> ProductRecord(url, b, wf), basic |-> b, warr |-> wf]

\* lines 301-312, b what extract_basic_fields returned
ParseBasic(url, page, b) ==
    IF b.raised THEN [raised |-> TRUE, rec |-> NoRecord, basic |-> b, warr |-> NoWarranty]
    ELSE ParseWarranty(url, b, extract_warranty_fields(page, b.name))

\* parse_product(url) on the page behind url: whether it raised, the record it
\* returned, and what the two extraction functions returned to it
parse_product(url, page) ==
    IF page.fetch # "ok"
    THEN [raised |-> FALSE, rec |-> ErrorRecord(url), basic |-> NoBasic,
          warr |-> NoWarranty]
    ELSE ParseBasic(url, page, extract_basic_fields(page))

(***************************************************************************)
(* Inputs of parse_product: pages built from a few texts.                  *)
(***************************************************************************)
t_PhoneX == <<"P","h","o","n","e"," ","X">>
t_GalaxyA5 == <<"G","a","l","a","x","y"," ","A","5">>
t_KSh1299 == <<"K","S","h"," ","1",",","2","9","9">>
t_free == <<"f","r","e","e">>
t_KSh2500 == <<"K","S","h"," ","2",",","5","0","0">>
t_SK1 == <<"S","K","1">>
t_12345 == <<"1","2","3","4","5">>
t_1299 == <<"1","2","9","9">>
t_Acme == <<"A","c","m","e">>
t_Follow == <<"F","o","l","l","o","w">>
t_FOLLOW_sp == <<" ","F","O","L","L","O","W"," ">>
t_follow_us == <<"f","o","l","l","o","w"," ","u","s">>
t_BestShop == <<"B","e","s","t"," ","S","h","o","p">>
t_SellerTopStore == <<"S","e","l","l","e","r",":"," ","T","o","p"," ","S","t","o","r","e">>
t_SellerScore == <<"S","e","l","l","e","r"," ","s","c","o","r","e"," ","9","0">>
t_Warranty == <<"W","a","r","r","a","n","t","y">>
t_WarrantyAddress == <<"W","a","r","r","a","n","t","y"," ","A","d","d","r","e","s","s">>
t_MainSt == <<"1","2","3"," ","M","a","i","n"," ","S","t">>
t_2years == <<"2"," ","y","e","a","r","s">>
t_1Year == <<"1"," ","Y","e","a","r">>
t_Desc == <<"C","o","m","e","s"," ","w","i","t","h"," ","w","a","r","r","a","n","t","y",":"," ","6"," ","m","o","n","t","h","s"," ","w","a","r","r","a","n","t","y",".">>
t_Color == <<"C","o","l","o","r">>
t_Red == <<"R","e","d">>
t_LaptopBag == <<"L","a","p","t","o","p"," ","B","a","g">>
t_LaptopBag2YW == <<"L","a","p","t","o","p"," ","B","a","g"," ","2"," ","Y","e","a","r"," ","W","a","r","r","a","n","t","y">>
t_WarrantyAddressRow == <<"W","a","r","r","a","n","t","y"," ","A","d","d","r","e","s","s",":"," ","1","2","3"," ","M","a","i","n"," ","S","t">>
k_Bag == <<"B","a","g">>
k_Years == <<"Y","e","a","r","s">>
k_Month == <<"M","o","n","t","h">>
k_WARRANTY == <<"W","A","R","R","A","N","T","Y">>

\* the longest title, in tokens, and the most top-level blocks of a page
MaxTitleTokens == 3
MaxBlocks == 2

SeqsUpTo(S, n) == UNION {[1..k -> S] : k \in 0..n}

Page(fetch, ld, dom) == [fetch |-> fetch, ld |-> ld, dom |-> dom]
Leaf(tag, cls, text) == El(tag, cls, text, <<>>)

NameVals == {Absent, PyNone, PyStr(<<>>), PyStr(t_PhoneX), NA, PyNum(<<"7">>)}
SkuVals == {Absent, PyNone, PyStr(t_SK1), PyNum(t_12345)}
PriceVals == {Absent, PyNone, PyStr(<<>>), PyStr(t_KSh1299), PyStr(t_free), NA,
              PyNum(t_1299), PyNum(<<"0">>)}
SellerNameVals == {Absent, PyNone, PyStr(<<>>), PyStr(t_Acme), PyStr(t_Follow), NA}
SellerVals ==
    {NoSeller, Seller("other", Absent)} \cup {Seller("dict", n) : n \in SellerNameVals}
OffersVals ==
    {NoOffers, Offers("other", Absent, NoSeller)}
    \cup {Offers("dict", p, s) : p \in PriceVals, s \in SellerVals}
Products == {Product(n, s, o) : n \in NameVals, s \in SkuVals, o \in OffersVals}

FullProduct ==
    Product(PyStr(t_PhoneX), PyStr(t_SK1),
            Offers("dict", PyStr(t_KSh1299), Seller("dict", PyStr(t_Acme))))
NullProduct ==
    Product(PyNone, PyNone, Offers("dict", PyNone, Seller("dict", PyNone)))
BareProduct == Product(Absent, Absent, NoOffers)
FollowProduct ==
    Product(Absent, Absent, Offers("dict", Absent, Seller("dict", PyStr(t_Follow))))
FewLd == {<<>>, <<FullProduct>>, <<NullProduct>>, <<BareProduct, FullProduct>>,
          <<FollowProduct>>}

H1Block == Leaf("h1", "", t_GalaxyA5)
PriceBlock == Leaf("span", "-b", t_KSh2500)
ExpressBlock == Img(s_JumiaExpress)
SellerBlocks ==
    { <<>>,
      <<Leaf("div", "seller-info", t_BestShop)>>,
      <<Leaf("span", "seller", t_Follow)>>,
      <<Leaf("p", "seller-name", t_FOLLOW_sp)>>,
      <<Leaf("div", "-seller", t_follow_us)>>,
      <<Leaf("div", "seller-info", t_Follow), Leaf("p", "", t_SellerTopStore)>>,
      <<Leaf("p", "", t_SellerTopStore)>>,
      <<Leaf("p", "", t_Follow)>>,
      <<Leaf("p", "", t_SellerScore)>>,
      <<El("div", "", <<>>, <<Leaf("p", "", t_Color), Leaf("span", "", t_SellerTopStore)>>)>> }
BasicDoms ==
    {h \o p \o s \o x : h \in {<<>>, <<H1Block>>}, p \in {<<>>, <<PriceBlock>>},
                        s \in SellerBlocks, x \in {<<>>, <<ExpressBlock>>}}
RichDom == <<H1Block, PriceBlock, Leaf("div", "seller-info", t_BestShop), ExpressBlock>>

Row(label, value) == El("tr", "", <<>>, <<Leaf("td", "", label), Leaf("td", "", value)>>)
SpecTable(rows) == El("table", "specifications", <<>>, rows)
\* a label/value row "Warranty Address: 123 Main St" as a table row, as two
\* spans of a div, and as one list item
AddressTable == SpecTable(<<Row(t_WarrantyAddress, t_MainSt)>>)
AddressDiv ==
    El("div", "", <<>>, <<Leaf("span", "", t_WarrantyAddress), Leaf("span", "", t_MainSt)>>)
AddressList == El("ul", "", <<>>, <<Leaf("li", "", t_WarrantyAddressRow)>>)
AddressRows == {AddressTable, AddressDiv, AddressList}
WarrantyBlocks ==
    AddressRows
    \cup { Leaf("p", "", t_Warranty),
           Leaf("p", "", t_2years),
           SpecTable(<<Row(t_Warranty, t_1Year)>>),
           SpecTable(<<Row(t_Warranty, t_1Year), Row(t_WarrantyAddress, t_MainSt)>>),
           SpecTable(<<Row(t_WarrantyAddress, t_MainSt), Row(t_Warranty, t_1Year)>>),
           SpecTable(<<Row(t_Color, t_Red)>>),
           Leaf("div", "description", t_Desc) }

TitleTokens ==
    {k_Bag, <<" ">>, <<"2">>, <<"-">>, s_yr, k_Years, k_Month, k_WARRANTY}
Titles ==
    {Concat(ts) : ts \in SeqsUpTo(TitleTokens, MaxTitleTokens)}
    \cup {t_LaptopBag, t_LaptopBag2YW}

ProductPages ==
    {Page("ok", <<p>>, d) : p \in Products, d \in {RichDom, <<>>}}
    \cup {Page("ok", l, d) : l \in FewLd, d \in BasicDoms}
    \cup {Page(f, <<FullProduct>>, RichDom) : f \in {"none", "empty"}}
    \cup {Page("ok", <<Product(PyStr(t), Absent, NoOffers)>>, <<>>) : t \in Titles}
    \cup {Page("ok", <<>>, <<Leaf("h1", "", t)>>) : t \in Titles}
    \cup {Page("ok", <<>>, d) : d \in SeqsUpTo(WarrantyBlocks, MaxBlocks)}

(***************************************************************************)
(* parse_product as a process: one call on one page.                       *)
(***************************************************************************)
TheUrl == 1

InitProduct ==
    /\ pp_page \in ProductPages
    /\ pp_pc = "start"
    /\ pp_basic = NoBasic
    /\ pp_warr = NoWarranty
    /\ pp_rec = NoRecord
    /\ IdleButProduct

\* parse_product(TheUrl) runs on pp_page and ends as r tells: the record of a
\* failed fetch (lines 297-299), the record of a parsed page (lines 300-312),
\* or the exception clean_price or re.search raises (lines 301-302)
PP_Run(r) ==
    /\ pp_pc = "start"
    /\ pp_pc' = IF r.raised THEN "raised" ELSE "done"
    /\ pp_basic' = r.basic
    /\ pp_warr' = r.warr
    /\ pp_rec' = r.rec
    /\ UNCHANGED <<pp_page, otherThanProduct>>

PP_FetchFailed == pp_page.fetch # "ok" /\ PP_Run(parse_product(TheUrl, pp_page))

PP_Parse == pp_page.fetch = "ok" /\ PP_Run(parse_product(TheUrl, pp_page))

NextProduct == PP_FetchFailed \/ PP_Parse

SpecProduct == InitProduct /\ [][NextProduct]_vars

(***************************************************************************)
(* URLs: str.split("#")[0] and urllib.parse.urljoin, computed on the       *)
(* characters.  The hrefs of the model hold no "?" and no ";", so a URL is *)
(* a scheme, a network location and a path.                                *)
(***************************************************************************)
s_html == <<".","h","t","m","l">>
s_http == <<"h","t","t","p">>
s_https == <<"h","t","t","p","s">>
s_jumia_co_ke == <<"j","u","m","i","a",".","c","o",".","k","e">>
s_login == <<"l","o","g","i","n">>
s_account == <<"a","c","c","o","u","n","t">>
s_cart == <<"c","a","r","t">>
EXCLUDED_SUBCATS ==
    << <<"s","p","-">>, <<"m","l","p","-">>, s_cart, s_account, s_login,
       <<"s","i","g","n","u","p">>, <<"h","e","l","p">>, <<"s","e","l","l">>,
       <<"o","f","f","i","c","i","a","l","-","s","t","o","r","e","s">>,
       <<"f","l","a","s","h","-","s","a","l","e">>,
       <<"c","o","n","t","a","c","t">>, <<"a","b","o","u","t">> >>

RECURSIVE IndexOf(_, _, _)
\* s.find(c) from position i on: the first index of c, 0 if there is none
IndexOf(s, c, i) ==
    IF i > Len(s) THEN 0 ELSE IF s[i] = c THEN i ELSE IndexOf(s, c, i + 1)

\* s[i:]
From(s, i) == SubSeq(s, i, Len(s))

\* href.split("#")[0]
SplitHash(href) ==
    IF IndexOf(href, "#", 1) = 0 THEN href
    ELSE SubSeq(href, 1, IndexOf(href, "#", 1) - 1)

RECURSIVE Split(_, _)
\* s.split(c)
Split(s, c) ==
    IF IndexOf(s, c, 1) = 0 THEN <<s>>
    ELSE <<SubSeq(s, 1, IndexOf(s, c, 1) - 1)>> \o Split(From(s, IndexOf(s, c, 1) + 1), c)

\* any(excl in href.lower() for excl in EXCLUDED_SUBCATS)
Excluded(href) ==
    \E i \in 1..Len(EXCLUDED_SUBCATS) : Contains(Lower(href), EXCLUDED_SUBCATS[i])

IsSchemeChar(c) == IsLetter(c) \/ IsDigit(c) \/ c \in {"+", "-", "."}

\* urlsplit: the length of the scheme url starts with, 0 if it has none
SchemeLen(url) ==
    IF /\ IndexOf(url, ":", 1) > 1
       /\ IsLetter(url[1])
       /\ \A j \in 1..(IndexOf(url, ":", 1) - 1) : IsSchemeChar(url[j])
    THEN IndexOf(url, ":", 1) - 1
    ELSE 0

\* urlsplit after the scheme: "//" opens the network location, which ends at
\* the next "/"
SplitNetloc(scheme, rest) ==
    IF StartsWith(rest, <<"/","/">>)
    THEN IF IndexOf(rest, "/", 3) = 0
         THEN [scheme |-> scheme, netloc |-> From(rest, 3), path |-> <<>>]
         ELSE [scheme |-> scheme,
               netloc |-> SubSeq(rest, 3, IndexOf(rest, "/", 3) - 1),
               path |-> From(rest, IndexOf(rest, "/", 3))]
    ELSE [scheme |-> scheme, netloc |-> <<>>, path |-> rest]

\* urlparse(url, scheme=default)
urlparse(url, default) ==
    IF SchemeLen(url) > 0
    THEN SplitNetloc(Lower(SubSeq(url, 1, SchemeLen(url))), From(url, SchemeLen(url) + 2))
    ELSE SplitNetloc(default, url)

\* the schemes of uses_relative and uses_netloc the model meets
UsesRelative == {<<>>, s_http, s_https, <<"f","t","p">>, <<"f","i","l","e">>}
UsesNetloc == UsesRelative

\* urlunparse
urlunparse(scheme, netloc, path) ==
    (IF scheme # <<>> THEN scheme \o <<":">> ELSE <<>>)
    \o (IF netloc # <<>> \/ (scheme # <<>> /\ scheme \in UsesNetloc
                             /\ ~StartsWith(path, <<"/","/">>))
        THEN <<"/","/">> \o netloc
             \o (IF path # <<>> /\ Head(path) # "/" THEN <<"/">> ELSE <<>>) \o path
        ELSE path)

RECURSIVE ResolveDots(_, _)
\* the loop over the segments of urljoin: ".." drops the last kept segment,
\* "." is skipped
ResolveDots(segments, resolved_path) ==
    IF segments = <<>> THEN resolved_path
    ELSE IF Head(segments) = <<".",".">>
         THEN ResolveDots(Tail(segments),
                          IF resolved_path = <<>> THEN <<>>
                          ELSE SubSeq(resolved_path, 1, Len(resolved_path) - 1))
    ELSE IF Head(segments) = <<".">> THEN ResolveDots(Tail(segments), resolved_path)
    ELSE ResolveDots(Tail(segments), Append(resolved_path, Head(segments)))

\* segments[1:-1] = filter(None, segments[1:-1])
DropInnerEmpty(segments) ==
    IF Len(segments) < 3 THEN segments
    ELSE <<Head(segments)>>
         \o SelectSeq(SubSeq(segments, 2, Len(segments) - 1), LAMBDA g : g # <<>>)
         \o <<segments[Len(segments)]>>

\* base_parts of urljoin: the segments of the base path without the last
BaseParts(bpath) ==
    IF Split(bpath, "/")[Len(Split(bpath, "/"))] # <<>>
    THEN SubSeq(Split(bpath, "/"), 1, Len(Split(bpath, "/")) - 1)
    ELSE Split(bpath, "/")

\* the segments urljoin resolves
JoinSegments(bpath, path) ==
    IF StartsWith(path, <<"/">>) THEN Split(path, "/")
    ELSE DropInnerEmpty(BaseParts(bpath) \o Split(path, "/"))

\* the path urljoin returns for the segments
JoinPath(segments) ==
    IF Join(ResolveDots(segments, <<>>)
            \o (IF segments[Len(segments)] \in {<<".">>, <<".",".">>}
                THEN << <<>> >> ELSE <<>>), <<"/">>) = <<>>
    THEN <<"/">>
    ELSE Join(ResolveDots(segments, <<>>)
              \o (IF segments[Len(segments)] \in {<<".">>, <<".",".">>}
                  THEN << <<>> >> ELSE <<>>), <<"/">>)

\* urljoin once base and url are parsed (b and u)
JoinParsed(base, url, b, u) ==
    IF u.scheme # b.scheme \/ u.scheme \notin UsesRelative THEN url
    ELSE IF u.scheme \in UsesNetloc /\ u.netloc # <<>>
         THEN urlunparse(u.scheme, u.netloc, u.path)
    ELSE IF u.path = <<>> THEN urlunparse(u.scheme, b.netloc, b.path)
    ELSE urlunparse(u.scheme, b.netloc, JoinPath(JoinSegments(b.path, u.path)))

\* urllib.parse.urljoin(base, url)
urljoin(base, url) ==
    IF base = <<>> THEN url
    ELSE IF url = <<>> THEN base
    ELSE JoinParsed(base, url, urlparse(base, <<>>),
                    urlparse(url, urlparse(base, <<>>).scheme))

(***************************************************************************)
(* Listing pages.  An element of a listing page has a tag, its class       *)
(* attribute (the characters), an href attribute (Absent if it has none),  *)
(* its own text and its child elements.                                    *)
(***************************************************************************)
LNode(tag, cls, href, text, kids) ==
    [tag |-> tag, cls |-> cls, href |-> href, text |-> text, kids |-> kids]

c_paxs == <<"-","p","a","x","s">>
c_row == <<"r","o","w">>
c_card == <<"c","a","r","d">>
c_products == <<"p","r","o","d","u","c","t","s">>
c_item == <<"i","t","e","m">>
c_prd_grid == <<"p","r","d","-","g","r","i","d">>
c_prd == <<"p","r","d">>

\* div[class*='-paxs'], div[class*='row'], section[class*='card'],
\* div[class*='products'], div[class*='item'], div[class*='prd-grid']
GridSel(n) ==
    \/ n.tag = "div" /\ \E c \in {c_paxs, c_row, c_products, c_item, c_prd_grid} :
                            Contains(n.cls, c)
    \/ n.tag = "section" /\ Contains(n.cls, c_card)
\* article[class*='prd'], div[class*='prd'], div[class*='item']
CardSel(n) ==
    \/ n.tag \in {"article", "div"} /\ Contains(n.cls, c_prd)
    \/ n.tag = "div" /\ Contains(n.cls, c_item)
\* a[href$='.html']
HtmlAnchorSel(n) == n.tag = "a" /\ n.href.k = "str" /\ EndsWith(n.href.s, s_html)
\* find("a", href=True)
AnchorSel(n) == n.tag = "a" /\ n.href.k = "str"

\* the elements of a walk, in document order
Nodes(w) == [i \in 1..Len(w) |-> w[i].n]

\* find_all(tag, recursive=False)
Children(n, tag) == SelectSeq(n.kids, LAMBDA k : k.tag = tag)

\* product_grid.find_all("article", recursive=False)
\*     or product_grid.find_all("div", recursive=False)
product_cards(product_grid) ==
    IF Children(product_grid, "article") # <<>>
    THEN Children(product_grid, "article")
    ELSE Children(product_grid, "div")

\* the link of a card, lines 93-96 and 102-105: the first anchor below the
\* card that has an href, if the href without its fragment ends in ".html"
\* and holds no excluded word; as a set of at most one URL
AnchorLink(anchors, base_url) ==
    IF anchors = <<>> THEN {}
    ELSE IF EndsWith(SplitHash(anchors[1].href.s), s_html)
            /\ ~Excluded(SplitHash(anchors[1].href.s))
         THEN {urljoin(base_url, SplitHash(anchors[1].href.s))}
    ELSE {}
CardLink(card, base_url) ==
    AnchorLink(SelectSeq(Nodes(Walk(card.kids, {})), AnchorSel), base_url)

\* Strategy 1 (lines 89-97): the links of the cards of the first grid
GridLinks(grids, base_url) ==
    IF grids = <<>> THEN {}
    ELSE UNION {CardLink(product_cards(grids[1])[i], base_url) :
                    i \in 1..Len(product_cards(grids[1]))}
Strategy1(soup, base_url) ==
    GridLinks(SelectSeq(Nodes(Walk(soup, {})), GridSel), base_url)

RECURSIVE FirstCardLink(_, _)
\* Strategy 2 (lines 101-108): the loop returns at the first card that leaves
\* links non-empty
FirstCardLink(cards, base_url) ==
    IF cards = <<>> THEN {}
    ELSE IF CardLink(Head(cards), base_url) # {} THEN CardLink(Head(cards), base_url)
    ELSE FirstCardLink(Tail(cards), base_url)
Strategy2(soup, base_url) ==
    FirstCardLink(SelectSeq(Nodes(Walk(soup, {})), CardSel), base_url)

\* Strategy 3 (lines 111-114): every anchor whose href ends in ".html"
GenericLinks(anchors, base_url) ==
    {urljoin(base_url, SplitHash(anchors[i].href.s)) :
        i \in {j \in 1..Len(anchors) : ~Excluded(SplitHash(anchors[j].href.s))}}
Strategy3(soup, base_url) ==
    GenericLinks(SelectSeq(Nodes(Walk(soup, {})), HtmlAnchorSel), base_url)

\* the strategy whose links parse_links_from_grid returns
GridStrategy(l1, l2) == IF l1 # {} THEN "grid" ELSE IF l2 # {} THEN "cards" ELSE "generic"
GridResult(soup, base_url, l1, l2) ==
    IF l1 # {} THEN l1 ELSE IF l2 # {} THEN l2 ELSE Strategy3(soup, base_url)

\* parse_links_from_grid(soup, base_url), the returned list as a set
parse_links_from_grid(soup, base_url) ==
    GridResult(soup, base_url, Strategy1(soup, base_url), Strategy2(soup, base_url))

\* listing-page inputs
c_grid_row == <<"-","p","a","x","s"," ","r","o","w"," ","_","n","o","-","g">>
c_prd_card == <<"p","r","d"," ","_","f","b"," ","c","o","l"," ","c","-","p","r","d">>
ExampleBase == <<"h","t","t","p","s",":","/","/","e","x","a","m","p","l","e",".","t","e","s","t">>
h_abc_reviews == <<"/","p","r","o","d","u","c","t","/","a","b","c",".","h","t","m","l","#","r","e","v","i","e","w","s">>
h_abc == <<"/","p","r","o","d","u","c","t","/","a","b","c",".","h","t","m","l">>
h_rel == <<"t","v",".","h","t","m","l","#","s","p","e","c","s">>
h_cart == <<"/","c","a","r","t","/","v","i","e","w",".","h","t","m","l">>
h_other == <<"h","t","t","p","s",":","/","/","o","t","h","e","r",".","t","e","s","t","/","p",".","h","t","m","l","#","t","o","p">>
h_cdn == <<"/","/","c","d","n",".","t","e","s","t","/","a",".","h","t","m","l">>
h_frag_only == <<"#","t","a","b",".","h","t","m","l">>
h_dots == <<".",".","/","x","/",".","/","b",".","h","t","m","l">>
h_htm == <<"/","p","a","g","e",".","h","t","m">>
u_abc == <<"h","t","t","p","s",":","/","/","e","x","a","m","p","l","e",".","t","e","s","t","/","p","r","o","d","u","c","t","/","a","b","c",".","h","t","m","l">>

\* the most top-level elements of a listing page
MaxListingBlocks == 2

Anchor(href) == LNode("a", <<>>, PyStr(href), <<>>, <<>>)
Card(href) == LNode("article", c_prd_card, Absent, <<>>, <<Anchor(href)>>)
Grid(cards) == LNode("div", c_grid_row, Absent, <<>>, cards)
Hrefs == {h_abc_reviews, h_abc, h_rel, h_cart, h_other, h_cdn, h_frag_only, h_dots, h_htm}
ListingBlocks ==
    {Anchor(h) : h \in Hrefs}
    \cup {Card(h) : h \in {h_abc_reviews, h_rel, h_cart}}
    \cup { LNode("a", <<>>, Absent, <<>>, <<>>),
           LNode("div", c_item, Absent, <<>>, <<Anchor(h_abc)>>),
           LNode("div", c_item, Absent, <<>>,
                 <<LNode("div", <<>>, Absent, <<>>, <<Anchor(h_htm), Anchor(h_abc_reviews)>>)>>),
           Grid(<<Card(h_abc_reviews), Card(h_rel)>>),
           Grid(<<Card(h_cart), LNode("div", <<>>, Absent, <<>>, <<Anchor(h_abc)>>)>>),
           Grid(<<>>) }
ListingPages == SeqsUpTo(ListingBlocks, MaxListingBlocks)

(***************************************************************************)
(* parse_links_from_grid as a process: one call on one listing page, with  *)
(* one action for each of its three returns.                               *)
(***************************************************************************)
InitGrid ==
    /\ pg_soup \in ListingPages
    /\ pg_pc = "start"
    /\ pg_links = {}
    /\ IdleButGrid

PG_Return(strategy) ==
    /\ pg_pc = "start"
    /\ GridStrategy(Strategy1(pg_soup, ExampleBase), Strategy2(pg_soup, ExampleBase)) = strategy
    /\ pg_pc' = strategy
    /\ pg_links' = parse_links_from_grid(pg_soup, ExampleBase)
    /\ UNCHANGED <<pg_soup, otherThanGrid>>

\* line 99
PG_Grid == PG_Return("grid")
\* line 108
PG_Cards == PG_Return("cards")
\* line 115
PG_Generic == PG_Return("generic")

NextGrid == PG_Grid \/ PG_Cards \/ PG_Generic

SpecGrid == InitGrid /\ [][NextGrid]_vars

(***************************************************************************)
(* get_total_pages                                                         *)
(***************************************************************************)
MAX_PAGES == 50

c_pagination == <<"p","a","g","i","n","a","t","i","o","n">>
Digits == <<"0","1","2","3","4","5","6","7","8","9">>

\* int(c) of one digit
DigitVal(c) == (CHOOSE i \in 1..10 : Digits[i] = c) - 1

RECURSIVE ToInt(_, _)
\* int(s) of a string of digits, from the value n of the digits read so far
ToInt(s, n) == IF s = <<>> THEN n ELSE ToInt(Tail(s), 10 * n + DigitVal(Head(s)))

RECURSIVE Str(_)
\* str(n) of a number n >= 0
Str(n) == IF n < 10 THEN <<Digits[n + 1]>> ELSE Str(n \div 10) \o <<Digits[(n % 10) + 1]>>

\* str.isdigit()
IsDigits(s) == s # <<>> /\ \A i \in 1..Len(s) : IsDigit(s[i])

Min(a, b) == IF a < b THEN a ELSE b

\* mutant: the detected page count is used as it is
Cap_Uncapped(n) == n

\* min(n, MAX_PAGES)
Cap(n) == Min(n, MAX_PAGES)

RECURSIVE RawText(_)
\* node.get_text(): the strings below a node, joined as they are
RawText(n) ==
    n.text \o (IF n.kids = <<>> THEN <<>>
               ELSE Concat([i \in 1..Len(n.kids) |-> RawText(n.kids[i])]))

\* the class attribute holds the class name
HasClass(cls, name) == \E i \in 1..Len(Split(cls, " ")) : Split(cls, " ")[i] = name

\* nav.pagination, div.pagination, ul.pagination
PaginationSel(n) == n.tag \in {"nav", "div", "ul"} /\ HasClass(n.cls, c_pagination)
TagSelA(n) == n.tag = "a"

\* pagination.find_all("a")
PaginationAnchors(pagination) == SelectSeq(Nodes(Walk(pagination.kids, {})), TagSelA)

\* pagination.find_all("a")[-2].get_text(strip=True)
LastPageText(anchors) == GetText(anchors[Len(anchors) - 1], <<>>)

\* \b\d+\s*of\s*(\d+)\b matched from position i of t: where "of" stands,
\* where the total starts and where it ends
PageInfoOf(t, i) == SkipSpaces(t, SkipDigits(t, i))
PageInfoTotal(t, i) == SkipSpaces(t, PageInfoOf(t, i) + 2)
PageInfoEnd(t, i) == SkipDigits(t, PageInfoTotal(t, i))
PageInfoAt(t, i) ==
    /\ IsDigit(t[i])
    /\ i = 1 \/ ~IsWordChar(t[i - 1])
    /\ MatchAt(t, PageInfoOf(t, i), <<"o","f">>)
    /\ PageInfoTotal(t, i) <= Len(t)
    /\ IsDigit(t[PageInfoTotal(t, i)])
    /\ PageInfoEnd(t, i) > Len(t) \/ ~IsWordChar(t[PageInfoEnd(t, i)])
\* re.search(r'\b\d+\s*of\s*\d+\b', t)
PageInfoSearch(t) == \E i \in 1..Len(t) : PageInfoAt(t, i)
\* match.group(1) of the leftmost match
PageInfoGroupAt(t, i) == SubSeq(t, PageInfoTotal(t, i), PageInfoEnd(t, i) - 1)
PageInfoGroup(t) ==
    PageInfoGroupAt(t, CHOOSE i \in 1..Len(t) :
                           PageInfoAt(t, i) /\ \A j \in 1..(i - 1) : ~PageInfoAt(t, j))

\* t.get_text() of the tags soup.find visits: the html element, then every
\* element of the page in document order
TagTexts(soup) ==
    << Concat([i \in 1..Len(soup) |-> RawText(soup[i])]) >>
    \o [i \in 1..Len(Walk(soup, {})) |-> RawText(Walk(soup, {})[i].n)]

\* lines 125-134: the "N of M" text, else the dataLayer impressions, else
\* MAX_PAGES; texts are the texts of the tags that match the pattern
TotalFromPageInfo(soup, texts) ==
    IF texts # <<>> THEN Cap(ToInt(PageInfoGroup(texts[1]), 0))
    ELSE IF "ecommerce" \in DOMAIN parse_data_layer(soup)
         THEN Cap((Len(parse_data_layer(soup).ecommerce) \div 40) + 1)
    ELSE MAX_PAGES

\* lines 119-123 and 135-136: the last page of the pagination element; an
\* element with fewer than two anchors raises IndexError, caught on line 135
TotalFromPagination(soup, pagination) ==
    IF pagination # <<>> /\ Len(PaginationAnchors(pagination[1])) < 2 THEN MAX_PAGES
    ELSE IF pagination # <<>>
            /\ IsDigits(LastPageText(PaginationAnchors(pagination[1])))
         THEN Cap(ToInt(LastPageText(PaginationAnchors(pagination[1])), 0))
    ELSE TotalFromPageInfo(soup, SelectSeq(TagTexts(soup), PageInfoSearch))

get_total_pages(soup) ==
    TotalFromPagination(soup, SelectSeq(Nodes(Walk(soup, {})), PaginationSel))

(***************************************************************************)
(* get_product_links.  The calls in progress are a stack of frames; a      *)
(* frame holds the locals of its call (category_url, depth, soup, the      *)
(* subcategory URLs still to explore, all_links, max_pages, page) and      *)
(* where it stands: "entry" (line 139), "subcats" (lines 154-161), "loop"  *)
(* (line 166).  For the claims a frame also records sub, the links merged  *)
(* from subcategories, pgs, the links found on the pages it went past,     *)
(* tried, the last page number it fetched, and last_new, the new links of  *)
(* the last page it went past.  cl_last tells how a call ended, in the     *)
(* state just after its return.                                            *)
(***************************************************************************)
JumiaBase == <<"h","t","t","p","s",":","/","/","w","w","w",".","j","u","m","i","a",".","c","o",".","k","e">>
TopUrl == <<"h","t","t","p","s",":","/","/","w","w","w",".","j","u","m","i","a",".","c","o",".","k","e","/","p","h","o","n","e","s","/">>
h_phones == <<"/","p","h","o","n","e","s","/">>
h_tablets == <<"/","t","a","b","l","e","t","s","/">>
h_cart_dir == <<"/","c","a","r","t","/">>
h_elsewhere == <<"h","t","t","p","s",":","/","/","o","t","h","e","r",".","t","e","s","t","/","d","e","a","l","s","/">>
h_pa == <<"/","p","a",".","h","t","m","l">>
h_pb == <<"/","p","b",".","h","t","m","l">>
h_pc == <<"/","p","c",".","h","t","m","l">>
t_Next == <<"N","e","x","t">>
t_120 == <<"1","2","0">>
t_1of120 == <<"P","a","g","e"," ","1"," ","o","f"," ","1","2","0">>
t_2of3 == <<"2"," ","o","f"," ","3"," ","p","a","g","e","s">>
t_dots == <<".",".",".">>
t_x1of5y == <<"x","1"," ","o","f"," ","5","y">>

\* a[href*='/'][href$='/']
SubcatSel(n) ==
    n.tag = "a" /\ n.href.k = "str" /\ Contains(n.href.s, <<"/">>) /\ EndsWith(n.href.s, <<"/">>)

\* the test of lines 157-159 on a subcategory URL
SubcatAccepted(subcat_url) ==
    /\ Contains(subcat_url, s_jumia_co_ke)
    /\ ~Excluded(subcat_url)
    /\ \A x \in {s_login, s_account, s_cart} : ~Contains(Lower(subcat_url), x)

\* the subcategory URLs a category page leads to, in document order
SubcatUrls(anchors, base_url) ==
    SelectSeq([i \in 1..Len(anchors) |-> urljoin(base_url, anchors[i].href.s)],
              SubcatAccepted)
Subcategories(soup, base_url) ==
    SubcatUrls(SelectSeq(Nodes(Walk(soup, {})), SubcatSel), base_url)

\* A list of URLs is kept as the number of times each URL occurs in it:
\* the order list(s) gives the elements of a set is not fixed, and nothing
\* reads it.
\* list(s) of a set
ListOf(s) == [u \in s |-> 1]

\* set(l)
SetOf(l) == DOMAIN l


\* mutant: the loop never stops for want of new links
NoNewLinks_Never(new_links, page) == FALSE

\* not new_links and page > 1
NoNewLinks(new_links, page) == new_links = {} /\ page > 1

Frame(category_url, depth) ==
    [category_url |-> category_url, depth |-> depth, pc |-> "entry", soup |-> <<>>,
     subcats |-> <<>>, all_links |-> {}, max_pages |-> 0, page |-> 1,
     sub |-> {}, pgs |-> {}, tried |-> 0, last_new |-> {}]

NoReturn ==
    [depth |-> 0, stop |-> "none", page |-> 0, tried |-> 0, sub |-> {}, pgs |-> {},
     ret |-> <<>>]

\* the listing source: what a fetch of a category page and of page `page` of
\* a category can return.  The "finite" source serves pages over three
\* products; the "fresh" source serves on every page of every category a
\* link no other page holds, and every category page of it links to the
\* category itself and to another one.
Nav(texts) ==
    LNode("nav", c_pagination, Absent, <<>>,
          [i \in 1..Len(texts) |-> LNode("a", <<>>, Absent, texts[i], <<>>)])
Info(text) == LNode("span", <<>>, Absent, text, <<>>)
SubcatLinks ==
    { <<>>, <<Anchor(h_phones)>>, <<Anchor(h_tablets)>>,
      <<Anchor(h_tablets), Anchor(h_phones)>>,
      <<Anchor(h_cart_dir), Anchor(h_elsewhere)>> }
Paginations ==
    { <<>>, <<Nav(<< <<"1">>, <<"2">>, t_Next >>)>>, <<Info(t_1of120)>> }
OtherPaginations ==
    { <<Nav(<< <<"1">>, t_120, t_Next >>)>>, <<Nav(<<t_Next>>)>>,
      <<Nav(<< <<"0">>, t_Next >>)>>, <<Nav(<< <<"1">>, t_dots, t_Next >>), Info(t_2of3)>>,
      <<Info(t_x1of5y)>>, <<LNode("div", <<>>, Absent, <<"1">>, <<Info(<<" ","o","f"," ","7">>)>>)>> }
FiniteCategories ==
    {s \o p : s \in SubcatLinks, p \in Paginations} \cup OtherPaginations
FreshCategories ==
    { <<Anchor(h_tablets), Anchor(h_phones), Info(t_1of120)>>,
      <<Anchor(h_tablets), Info(t_1of120)>>,
      <<Anchor(h_phones), Nav(<< <<"1">>, <<"2">>, t_Next >>)>> }
CategorySoups(src) == IF src = "fresh" THEN FreshCategories ELSE FiniteCategories

FinitePages ==
    { <<>>, <<Grid(<<Card(h_pa)>>)>>, <<Grid(<<Card(h_pa), Card(h_pb)>>)>>,
      <<Anchor(h_pb), Anchor(h_pc)>> }
\* the page `page` of a category of the fresh source
FreshPage(category_url, page) ==
    <<Anchor(urlparse(category_url, <<>>).path \o Str(page) \o s_html)>>

\* what the calls on the category pages return, computed once
CategorySubcats ==
    [soup \in FiniteCategories \cup FreshCategories |-> Subcategories(soup, JumiaBase)]
CategoryTotal ==
    [soup \in FiniteCategories \cup FreshCategories |-> get_total_pages(soup)]

\* the categories of the fresh source and the pages it serves for them, as
\* many as its category pages declare
FreshUrls ==
    {TopUrl} \cup UNION {{CategorySubcats[s][i] : i \in 1..Len(CategorySubcats[s])} :
                            s \in FreshCategories}
FreshPages ==
    [c \in FreshUrls |-> [p \in 1..ToInt(t_120, 0) |-> FreshPage(c, p)]]
PageSoups(src, category_url, page) ==
    IF src = "fresh" THEN {FreshPages[category_url][page]} ELSE FinitePages

\* what the calls on the pages return, computed once
PageLinks ==
    [soup \in FinitePages
               \cup UNION {{FreshPages[c][p] : p \in 1..ToInt(t_120, 0)} : c \in FreshUrls}
        |-> parse_links_from_grid(soup, JumiaBase)]
\* found_links of line 184
found_links(soup) == PageLinks[soup]

(***************************************************************************)
(* fetch_page and the requests of the collector.  The network answers an   *)
(* attempt with the text of the page or with an error; nets holds the      *)
(* answers the network would give to three attempts in a row.              *)
(***************************************************************************)
s_slash == <<"/">>
s_qmark == <<"?">>
s_page_query == <<"?","p","a","g","e","=">>
s_page_amp == <<"&","p","a","g","e","=">>
s_page_dir == <<"/","p","a","g","e","/">>
StopAfterAttempt == 3
NetOutcomes ==
    { <<"ok", "ok", "ok">>, <<"error", "ok", "ok">>, <<"error", "error", "error">> }

\* the body of fetch_page (lines 32-42) on one answer of the network: the
\* except clause turns every error into the return of None, so the body
\* never raises
FetchBody(net) == [raised |-> FALSE, ok |-> net = "ok"]

RECURSIVE RetryCall(_, _)
\* @retry(stop=stop_after_attempt(3)) of line 30: the body is called again
\* while it raises, three times at most; i is the number of the attempt
RetryCall(nets, i) ==
    IF FetchBody(nets[i]).raised /\ i < StopAfterAttempt
    THEN RetryCall(nets, i + 1)
    ELSE [attempts |-> i, ok |-> FetchBody(nets[i]).ok]

\* fetch_page(url, proxy): the attempts made and whether a text is returned
fetch_page(nets) == RetryCall(nets, 1)

RECURSIVE RStripSlash(_)
\* category_url.rstrip("/")
RStripSlash(url) ==
    IF url # <<>> /\ url[Len(url)] = "/" THEN RStripSlash(SubSeq(url, 1, Len(url) - 1))
    ELSE url

\* pagination_formats of lines 167-170
pagination_formats(category_url, page) ==
    << category_url \o (IF EndsWith(category_url, s_slash) THEN <<>> ELSE s_slash)
          \o (IF ~Contains(category_url, s_qmark) THEN s_page_query ELSE s_page_amp)
          \o Str(page),
       RStripSlash(category_url) \o s_page_dir \o Str(page) \o s_slash >>

\* one call of fetch_page for page `page` of a listing (0 for the category
\* page itself)
Request(url, page, nets) ==
    [url |-> url, page |-> page, attempts |-> fetch_page(nets).attempts,
     ok |-> fetch_page(nets).ok]

\* what the source can answer: the fresh source serves every request
Nets(src) == IF src = "fresh" THEN {<<"ok", "ok", "ok">>} ELSE NetOutcomes

\* the calls of the loop of lines 173-181 for one page: the formats are
\* requested in turn until one returns a text
PageRequests(src, category_url, page) ==
    LET fmt == pagination_formats(category_url, page)
    IN { <<Request(fmt[1], page, n1)>> : n1 \in {n \in Nets(src) : fetch_page(n).ok} }
       \cup { <<Request(fmt[1], page, n1), Request(fmt[2], page, n2)>> :
                 n1 \in {n \in Nets(src) : ~fetch_page(n).ok}, n2 \in Nets(src) }
\* the page was fetched under one of the formats
Fetched(reqs) == reqs[Len(reqs)].ok

(***************************************************************************)
(* get_product_links as a process: the call the page script makes on line  *)
(* 340 and the calls it makes on itself.                                   *)
(***************************************************************************)
InitLinks ==
    /\ cl_src \in {"finite", "fresh"}
    /\ cl_stack = <<Frame(TopUrl, 0)>>
    /\ cl_pc = "running"
    /\ cl_ret = <<>>
    /\ cl_last = NoReturn
    /\ cl_reqs = <<>> /\ cl_gap = "none"
    /\ IdleButLinks

\* the frame of the call that is running
Top == cl_stack[Len(cl_stack)]

\* the stack once the running call has returned links: the caller merges
\* them (line 161) and goes on to its next subcategory
AfterReturn(stack, links) ==
    IF Len(stack) = 1 THEN <<>>
    ELSE SubSeq(stack, 1, Len(stack) - 2)
         \o << [stack[Len(stack) - 1] EXCEPT !.all_links = @ \cup links,
                                             !.sub = @ \cup links,
                                             !.subcats = Tail(@)] >>

\* the running call returns links, having fetched `tried` as its last page
CL_Return(stop, links, tried) ==
    /\ cl_stack' = AfterReturn(cl_stack, links)
    /\ cl_pc' = IF Len(cl_stack) = 1 THEN "returned" ELSE "running"
    /\ cl_ret' = IF Len(cl_stack) = 1 THEN ListOf(links) ELSE cl_ret
    /\ cl_last' = [depth |-> Top.depth, stop |-> stop, page |-> Top.page,
                   tried |-> tried, sub |-> Top.sub, pgs |-> Top.pgs,
                   ret |-> ListOf(links)]
    /\ UNCHANGED <<cl_src, otherThanLinks>>

\* the running call goes on with its frame changed to f
CL_Step(f) ==
    /\ cl_stack' = [cl_stack EXCEPT ![Len(cl_stack)] = f]
    /\ cl_last' = NoReturn
    /\ UNCHANGED <<cl_src, cl_pc, cl_ret, otherThanLinks>>

AtEntry == cl_pc = "running" /\ Top.pc = "entry"
AtSubcats == cl_pc = "running" /\ Top.pc = "subcats"
AtPage == cl_pc = "running" /\ Top.pc = "loop" /\ Top.page <= Top.max_pages

\* lines 139-141: beyond the depth limit the call returns at once
CL_Skip == AtEntry /\ Top.depth > 1 /\ CL_Return("depth", {}, 0) /\ cl_reqs' = <<>> /\ cl_gap' = cl_gap

\* lines 146-149: the category page cannot be fetched
CL_CategoryFailed ==
    /\ AtEntry /\ Top.depth <= 1
    /\ \E nets \in NetOutcomes :
          /\ ~fetch_page(nets).ok
          /\ cl_reqs' = <<Request(Top.category_url, 0, nets)>> /\ cl_gap' = "fetch"
    /\ CL_Return("nofetch", {}, 0)

\* lines 146-153: the category page is fetched and parsed
CL_CategoryFetched ==
    /\ AtEntry /\ Top.depth <= 1
    /\ \E nets \in Nets(cl_src) :
          /\ fetch_page(nets).ok
          /\ cl_reqs' = <<Request(Top.category_url, 0, nets)>> /\ cl_gap' = "fetch"
    /\ \E soup \in CategorySoups(cl_src) :
          CL_Step([Top EXCEPT !.pc = "subcats", !.soup = soup,
                              !.subcats = CategorySubcats[soup]])

\* lines 154-161: the call on the next subcategory
CL_Explore ==
    /\ AtSubcats /\ Top.subcats # <<>>
    /\ cl_stack' = Append(cl_stack, Frame(Head(Top.subcats), Top.depth + 1))
    /\ cl_last' = NoReturn
    /\ cl_reqs' = <<>> /\ cl_gap' = cl_gap
    /\ UNCHANGED <<cl_src, cl_pc, cl_ret, otherThanLinks>>

\* line 163
CL_TotalPages ==
    /\ AtSubcats /\ Top.subcats = <<>>
    /\ CL_Step([Top EXCEPT !.pc = "loop", !.max_pages = CategoryTotal[Top.soup]])
    /\ cl_reqs' = <<>> /\ cl_gap' = cl_gap

\* line 166: the loop ends with page > max_pages, line 200
CL_Exhausted ==
    /\ cl_pc = "running" /\ Top.pc = "loop" /\ Top.page > Top.max_pages
    /\ CL_Return("exhausted", Top.all_links, Top.tried)
    /\ cl_reqs' = <<>> /\ cl_gap' = cl_gap

\* lines 173-181: both pagination formats fail.  The fresh source serves
\* every page.
CL_PageFailed ==
    /\ AtPage /\ cl_src = "finite"
    /\ \E reqs \in PageRequests(cl_src, Top.category_url, Top.page) :
          ~Fetched(reqs) /\ cl_reqs' = reqs /\ cl_gap' = "fetch"
    /\ CL_Return("pagefail", Top.all_links, Top.page)

\* lines 183-188: the page holds no product link
CL_PageNoLinks ==
    /\ AtPage
    /\ \E reqs \in PageRequests(cl_src, Top.category_url, Top.page) :
          Fetched(reqs) /\ cl_reqs' = reqs /\ cl_gap' = "fetch"
    /\ \E soup \in PageSoups(cl_src, Top.category_url, Top.page) :
          /\ found_links(soup) = {}
          /\ CL_Return("nolinks", Top.all_links, Top.page)

\* lines 190-193: the page holds no link that is new
CL_PageNoNew ==
    /\ AtPage
    /\ \E reqs \in PageRequests(cl_src, Top.category_url, Top.page) :
          Fetched(reqs) /\ cl_reqs' = reqs /\ cl_gap' = "fetch"
    /\ \E soup \in PageSoups(cl_src, Top.category_url, Top.page) :
          /\ found_links(soup) # {}
          /\ NoNewLinks(found_links(soup) \ Top.all_links, Top.page)
          /\ CL_Return("nonew", Top.all_links, Top.page)

\* mutant: the links of the page are not kept
Collected_Forgetful(f, found) ==
    [f EXCEPT !.pgs = @ \cup found,
              !.last_new = found \ f.all_links,
              !.tried = f.page,
              !.page = @ + 1]

\* the frame after lines 195-198 with the links found on the page
Collected(f, found) ==
    [f EXCEPT !.all_links = @ \cup found,
              !.pgs = @ \cup found,
              !.last_new = found \ f.all_links,
              !.tried = f.page,
              !.page = @ + 1]

\* lines 167-198: the page is fetched under one of the two formats and its
\* links are merged
CL_PageCollected ==
    /\ AtPage
    /\ \E reqs \in PageRequests(cl_src, Top.category_url, Top.page) :
          Fetched(reqs) /\ cl_reqs' = reqs
    \* time.sleep(random.uniform(*PAGE_SLEEP)) of line 198
    /\ cl_gap' = "sleep"
    /\ \E soup \in PageSoups(cl_src, Top.category_url, Top.page) :
          /\ found_links(soup) # {}
          /\ ~NoNewLinks(found_links(soup) \ Top.all_links, Top.page)
          /\ CL_Step(Collected(Top, found_links(soup)))

NextLinks ==
    \/ CL_Skip
    \/ CL_CategoryFailed
    \/ CL_CategoryFetched
    \/ CL_Explore
    \/ CL_TotalPages
    \/ CL_Exhausted
    \/ CL_PageFailed
    \/ CL_PageNoLinks
    \/ CL_PageNoNew
    \/ CL_PageCollected

SpecLinks == InitLinks /\ [][NextLinks]_vars

\* the script runs the call step by step: every fetch ends (the request has
\* a timeout, line 36) and every sleep ends
SpecLinksFair == SpecLinks /\ WF_vars(NextLinks)

(***************************************************************************)
(* The scrape loop of the page script, lines 358-372: every collected URL  *)
(* is submitted to a ThreadPoolExecutor of MAX_WORKERS threads, each       *)
(* worker runs parse_product, and the script merges the results in the     *)
(* order the futures complete.  A future is "new" (not yet submitted),     *)
(* "queued", "running", "finished" or "yielded" (as_completed has handed   *)
(* it to the loop); out is what its call of parse_product ended with.      *)
(* With debug_mode the loop also fetches the page of an error record again *)
(* to display it (lines 369-372), which changes nothing here.              *)
(***************************************************************************)
MAX_WORKERS == 4

\* the most URLs the collection step hands over
MaxUrls == 3

GoodPage == Page("ok", <<FullProduct>>, RichDom)
BarePage == Page("ok", <<>>, <<>>)
\* a page whose structured price is the JSON number 1299
NumberPricePage ==
    Page("ok", <<Product(PyStr(t_PhoneX), PyStr(t_SK1),
                         Offers("dict", PyNum(t_1299), NoSeller))>>, <<>>)
PoolPages == {GoodPage, BarePage, NumberPricePage}
\* what fetch_page gives parse_product when the fetch fails
Unfetched(page) == [page EXCEPT !.fetch = "none"]

\* one URL more than the pool has threads
WideUrls == MAX_WORKERS + 1
\* the URLs of the model
PoolUrls == 1..(IF MaxUrls > WideUrls THEN MaxUrls ELSE WideUrls)

\* parse_product on every URL and page of the model, computed once
ParseResults ==
    [u \in PoolUrls |->
        [p \in PoolPages \cup {Unfetched(q) : q \in PoolPages} |-> parse_product(u, p)]]

\* how a call of parse_product ended: whether its fetch gave a page, whether
\* it raised, and the record it returned
Outcome(fetched, raised, rec) == [fetched |-> fetched, raised |-> raised, rec |-> rec]
NoOutcome == Outcome(FALSE, FALSE, NoRecord)
Future(st, out) == [st |-> st, out |-> out]

InitPool ==
    /\ pool_links \in {[i \in 1..m |-> i] : m \in 1..MaxUrls}
    /\ pool_pages \in [1..Len(pool_links) -> PoolPages]
    /\ pool_fut = [u \in 1..Len(pool_links) |-> Future("new", NoOutcome)]
    /\ pool_results = <<>>
    /\ pool_prog = <<>>
    /\ pool_pc = "submit"
    /\ IdleButPool

\* the futures in a state
InState(st) == {u \in DOMAIN pool_fut : pool_fut[u].st = st}
WorkersAlive == pool_pc \in {"submit", "collect", "aborting"}

\* line 363: ex.submit for the next URL of links; after the last one the
\* as_completed loop starts
Pool_Submit ==
    /\ pool_pc = "submit"
    /\ \E u \in InState("new") :
          /\ \A v \in InState("new") : u <= v
          /\ pool_fut' = [pool_fut EXCEPT ![u].st = "queued"]
          /\ pool_pc' = IF InState("new") = {u} THEN "collect" ELSE "submit"
    /\ UNCHANGED <<pool_links, pool_pages, pool_results, pool_prog, otherThanPool>>

\* mutant: the executor starts a thread for every call
FreeWorker_Unbounded == TRUE

\* ThreadPoolExecutor(max_workers=MAX_WORKERS), line 362: a thread of the
\* pool is idle, or the pool may still start one
FreeWorker == Cardinality(InState("running")) < MAX_WORKERS

\* a free worker thread takes the oldest queued call
Pool_Start ==
    /\ WorkersAlive
    /\ FreeWorker
    /\ \E u \in InState("queued") :
          /\ \A v \in InState("queued") : u <= v
          /\ pool_fut' = [pool_fut EXCEPT ![u].st = "running"]
    /\ UNCHANGED <<pool_links, pool_pages, pool_results, pool_prog, pool_pc, otherThanPool>>

\* the call of a worker ends with out
Pool_Finish(u, out) ==
    /\ WorkersAlive
    /\ u \in InState("running")
    /\ pool_fut' = [pool_fut EXCEPT ![u] = Future("finished", out)]
    /\ UNCHANGED <<pool_links, pool_pages, pool_results, pool_prog, pool_pc, otherThanPool>>

\* lines 297-299 in a worker: the fetch fails, the call returns the error record
Pool_FetchFailed ==
    \E u \in DOMAIN pool_fut :
        Pool_Finish(u, Outcome(FALSE, FALSE, ParseResults[u][Unfetched(pool_pages[u])].rec))

\* lines 300-312 in a worker: the call returns the record of the page
Pool_Parsed ==
    \E u \in DOMAIN pool_fut :
        /\ ~ParseResults[u][pool_pages[u]].raised
        /\ Pool_Finish(u, Outcome(TRUE, FALSE, ParseResults[u][pool_pages[u]].rec))

\* lines 301-302 in a worker: extraction raises, the future holds the exception
Pool_Raised ==
    \E u \in DOMAIN pool_fut :
        /\ ParseResults[u][pool_pages[u]].raised
        /\ Pool_Finish(u, Outcome(TRUE, TRUE, NoRecord))

\* lines 364-368: as_completed yields a finished future, its result is
\* appended and the progress is reported
Pool_Collect ==
    /\ pool_pc = "collect"
    /\ \E u \in InState("finished") :
          /\ ~pool_fut[u].out.raised
          /\ pool_fut' = [pool_fut EXCEPT ![u].st = "yielded"]
          /\ pool_results' = Append(pool_results, pool_fut[u].out.rec)
          /\ pool_prog' = Append(pool_prog, <<Len(pool_results) + 1, Len(pool_links)>>)
    /\ UNCHANGED <<pool_links, pool_pages, pool_pc, otherThanPool>>

\* line 365: fut.result() raises the exception of the worker, which leaves
\* the loop; the with statement waits for the workers before it lets the
\* exception through
Pool_CollectRaised ==
    /\ pool_pc = "collect"
    /\ \E u \in InState("finished") :
          /\ pool_fut[u].out.raised
          /\ pool_fut' = [pool_fut EXCEPT ![u].st = "yielded"]
    /\ pool_pc' = "aborting"
    /\ UNCHANGED <<pool_links, pool_pages, pool_results, pool_prog, otherThanPool>>

\* the exception leaves the script: no result table is built
Pool_Abort ==
    /\ pool_pc = "aborting"
    /\ InState("queued") \cup InState("running") = {}
    /\ pool_pc' = "aborted"
    /\ UNCHANGED <<pool_links, pool_pages, pool_fut, pool_results, pool_prog, otherThanPool>>

\* lines 374-377: every future was yielded, the results become the table
Pool_Complete ==
    /\ pool_pc = "collect"
    /\ InState("yielded") = DOMAIN pool_fut
    /\ pool_pc' = "complete"
    /\ UNCHANGED <<pool_links, pool_pages, pool_fut, pool_results, pool_prog, otherThanPool>>

NextPool ==
    \/ Pool_Submit
    \/ Pool_Start
    \/ Pool_FetchFailed
    \/ Pool_Parsed
    \/ Pool_Raised
    \/ Pool_Collect
    \/ Pool_CollectRaised
    \/ Pool_Abort
    \/ Pool_Complete

SpecPool == InitPool /\ [][NextPool]_vars

\* the scrape loop on more URLs than the pool has threads; the page of the
\* first URL may be one that makes parse_product raise
InitPoolWide ==
    /\ pool_links = [i \in 1..WideUrls |-> i]
    /\ pool_pages \in {[u \in 1..WideUrls |-> GoodPage],
                       [u \in 1..WideUrls |-> IF u = 1 THEN NumberPricePage ELSE GoodPage]}
    /\ pool_fut = [u \in 1..WideUrls |-> Future("new", NoOutcome)]
    /\ pool_results = <<>>
    /\ pool_prog = <<>>
    /\ pool_pc = "submit"
    /\ IdleButPool

SpecPoolWide == InitPoolWide /\ [][NextPool]_vars

\* the script and the worker threads keep running: a call of parse_product
\* ends (the request has a timeout, line 36), as_completed hands over a
\* finished future, and the with statement waits for the workers
SpecPoolWideFair == SpecPoolWide /\ WF_vars(NextPool)

(***************************************************************************)
(* A crawl under a cancellation request.  The user may ask for the crawl   *)
(* to be cancelled at any moment of the link collection (lines 340-341) or *)
(* of the scrape loop (lines 362-372).  The script holds no flag for the   *)
(* request and no statement of get_product_links or of the scrape loop     *)
(* reads one: the steps of both are those of SpecLinks and SpecPool.       *)
(***************************************************************************)
InitCrawl == InitLinks \/ InitPool

CrawlRunning == cl_pc = "running" \/ pool_pc \in {"submit", "collect"}

\* the user asks for the crawl to be cancelled
StopRequest ==
    /\ CrawlRunning /\ ~stop_requested
    /\ stop_requested' = TRUE
    /\ UNCHANGED <<productVars, gridVars, linkVars, poolVars, categoryVars, buttonVars, stripVars, splitterVars>>

NextCrawl == StopRequest \/ NextLinks \/ NextPool

SpecCrawl == InitCrawl /\ [][NextCrawl]_vars

(***************************************************************************)
(* The product template generator, src/pages/products.py: the layered      *)
(* matching of a source class to a category (resolve_category) and the     *)
(* helpers it calls.                                                       *)
(***************************************************************************)
\* STRIP_PATTERNS, lines 61-70: the first six patterns are ^(a|b|...)\s+,
\* kept as their alternatives in order; the last two are \s+set$ and
\* \s+&\s+set$
PrefixPatterns ==
    << << <<"l","o","n","g"," ","s","l","e","e","v","e">>, <<"s","h","o","r","t"," ","s","l","e","e","v","e">>, <<"s","l","e","e","v","e","l","e","s","s">>, <<"3","/","4"," ","s","l","e","e","v","e">> >>,
       << <<"w","o","v","e","n">>, <<"k","n","i","t","t","e","d">>, <<"k","n","i","t">>, <<"t","r","i","c","o","t">> >>,
       << <<"m","a","t","e","r","n","i","t","y">>, <<"n","u","r","s","i","n","g">> >>,
       << <<"l","o","w"," ","c","u","t">>, <<"h","i","g","h"," ","c","u","t">>, <<"a","n","k","l","e">> >>,
       << <<"s","t","r","a","w">>, <<"s","n","a","p">>, <<"p","u">>, <<"l","i","g","h","t">> >>,
       << <<"a","c","t","i","v","e">>, <<"s","p","o","r","t">>, <<"s","p","o","r","t","s">> >> >>
s_set == <<"s","e","t">>
s_amp == <<"&">>

\* SPELLING_FIXES, lines 72-78
SPELLING_FIXES ==
    << << <<"s","u","v","e","t","e","r">>, <<"s","w","e","a","t","e","r">> >>,
       << <<"m","o","n","t">>, <<"c","o","a","t">> >>,
       << <<"m","a","y","o">>, <<"s","w","i","m","s","u","i","t">> >>,
       << <<"c","a","c","h","e","t">>, <<"h","a","t">> >>,
       << <<"r","o","l","l","e","r">>, <<"s","l","i","p","p","e","r">> >> >>

UpperChar(c) ==
    IF \E i \in 1..26 : LowerLetters[i] = c
    THEN UpperLetters[CHOOSE i \in 1..26 : LowerLetters[i] = c]
    ELSE c

\* str.title(): a letter after a character that is not a letter is put in
\* upper case, every other letter in lower case
Title(s) ==
    [i \in 1..Len(s) |->
        IF i = 1 \/ ~IsLetter(s[i - 1]) THEN UpperChar(s[i]) ELSE LowerChar(s[i])]

\* ^(a|b|...)\s+ at the start of t: the end of the match, 0 if there is none.
\* The alternatives are tried in order, each has to be followed by white
\* space, and \s+ takes all the white space there is.
RECURSIVE PrefixMatchEnd(_, _)
PrefixMatchEnd(t, alts) ==
    IF alts = <<>> THEN 0
    ELSE IF StartsWith(Lower(t), Head(alts))
            /\ Len(t) > Len(Head(alts)) /\ IsSpace(t[Len(Head(alts)) + 1])
         THEN SkipSpaces(t, Len(Head(alts)) + 1) - 1
    ELSE PrefixMatchEnd(t, Tail(alts))

\* re.sub(pat, "", t, flags=re.IGNORECASE) for a pattern ^(a|b|...)\s+
SubPrefix(t, alts) == SubSeq(t, PrefixMatchEnd(t, alts) + 1, Len(t))

\* the start of the white space that ends right before position i, i if
\* there is none
RECURSIVE SpacesBefore(_, _)
SpacesBefore(t, i) ==
    IF i > 1 /\ IsSpace(t[i - 1]) THEN SpacesBefore(t, i - 1) ELSE i

\* re.sub(r"\s+set$", "", t, flags=re.IGNORECASE): the leftmost match starts
\* where the white space before the final "set" starts.  $ also matches
\* before a final newline.
SetSuffixStart(t) ==
    LET u == IF t # <<>> /\ t[Len(t)] = "\n" THEN SubSeq(t, 1, Len(t) - 1) ELSE t
        i == Len(u) - 2
    IN IF EndsWith(Lower(u), s_set) /\ SpacesBefore(u, i) < i
       THEN SpacesBefore(u, i) ELSE 0
SubSetSuffix(t) ==
    IF SetSuffixStart(t) = 0 THEN t ELSE SubSeq(t, 1, SetSuffixStart(t) - 1)

\* re.sub(r"\s+&\s+set$", "", t, flags=re.IGNORECASE)
AmpSetSuffixStart(t) ==
    LET i == SetSuffixStart(t)
    IN IF i > 1 /\ t[i - 1] = "&" /\ SpacesBefore(t, i - 1) < i - 1
       THEN SpacesBefore(t, i - 1) ELSE 0
SubAmpSetSuffix(t) ==
    IF AmpSetSuffixStart(t) = 0 THEN t ELSE SubSeq(t, 1, AmpSetSuffixStart(t) - 1)

\* the loop of lines 83-84 over the prefix patterns from the i-th on
RECURSIVE StripPrefixes(_, _)
StripPrefixes(t, i) ==
    IF i > Len(PrefixPatterns) THEN t
    ELSE StripPrefixes(Strip(SubPrefix(t, PrefixPatterns[i])), i + 1)

\* strip_modifiers(text), lines 81-85
strip_modifiers(text) ==
    Title(Strip(SubAmpSetSuffix(Strip(SubSetSuffix(
        StripPrefixes(Lower(Strip(text)), 1))))))

s_nan == <<"n","a","n">>
\* float("nan"), the value pandas gives an empty cell
PyNaN == [k |-> "nan", s |-> <<>>]

\* str(v)
StrOf(v) ==
    CASE v.k = "nan" -> s_nan
      [] v.k = "none" -> <<"N","o","n","e">>
      [] OTHER -> v.s

(***************************************************************************)
(* The inputs of resolve_category in the model: the Class cells of the     *)
(* source file, the rows of the category map and of the mapping file, and  *)
(* the matching settings of lines 53-56.                                   *)
(***************************************************************************)
ClassVals ==
    { PyStr(<<"W","o","v","e","n"," ","B","i","k","i","n","i">>),
      PyStr(<<"b","i","k","i","n","i","s">>),
      PyStr(<<"S","u","v","e","t","e","r">>),
      PyStr(<<"B","i","k","i","n","i">>),
      PyStr(<<" ","H","a","t"," ">>),
      PyStr(<<>>),
      PyNum(<<"0">>),
      PyNum(<<"7">>),
      PyNaN,
      PyNone,
      PyStr(<<"z","z","z">>),
      PyStr(<<"L","o","n","g"," ","S","l","e","e","v","e"," ","T","-","S","h","i","r","t">>),
      PyStr(<<"S","w","e","a","t"," ","S","h","i","r","t">>) }
CategoryFiles ==
    { <<>>,
      << <<PyStr(<<"B","i","k","i","n","i","s">>), PyNum(<<"1","0","1">>)>>,
         <<PyStr(<<"S","w","e","a","t","e","r">>), PyNum(<<"1","0","2">>)>>,
         <<PyStr(<<"H","a","t">>), PyNum(<<"1","0","3">>)>>,
         <<PyStr(<<"T","-","S","h","i","r","t","s">>), PyNum(<<"1","0","4">>)>> >>,
      << <<PyStr(<<"B","i","k","i","n","i">>), PyStr(<<"2","0","1">>)>>,
         <<PyStr(<<"b","i","k","i","n","i">>), PyStr(<<"2","0","2">>)>>,
         <<PyStr(<<"H","o","o","d","i","e","s"," ","&"," ","S","w","e","a","t","s","h","i","r","t","s">>), PyStr(<<"2","0","3">>)>>,
         <<PyStr(<<"B","i","k","i","n","i"," ">>), PyStr(<<"2","9","9">>)>> >> }
MappingFiles ==
    { <<>>,
      << <<PyStr(<<"W","o","v","e","n"," ","B","i","k","i","n","i">>), PyNum(<<"9","0","0">>)>>,
         <<PyStr(<<"H","a","t">>), PyNum(<<"9","0","5">>)>>,
         <<PyStr(<<"H","a","t">>), PyNum(<<"9","0","6">>)>> >>,
      << <<PyNum(<<"0">>), PyNum(<<"9","0","1">>)>>,
         <<PyNaN, PyNum(<<"9","0","2">>)>>,
         <<PyStr(<<>>), PyNum(<<"9","0","3">>)>>,
         <<PyStr(<<" ","B","i","k","i","n","i"," ">>), PyNaN>> >>,
      << <<PyStr(<<"b","i","k","i","n","i","s">>), PyStr(<<"9","0","7">>)>>,
         <<PyStr(<<"z","z","z">>), PyStr(<<" ">>)>> >> }
Thresholds == {60, 80, 100}

\* difflib.SequenceMatcher.find_longest_match without junk (autojunk acts
\* on sequences of 200 elements and more): the longest block a[i..i+k-1] =
\* b[j..j+k-1], of those the one that starts earliest in a, and of those the
\* one that starts earliest in b
CommonAt(a, b, i, j, k) == SubSeq(a, i, i + k - 1) = SubSeq(b, j, j + k - 1)
CommonLen(a, b, k) ==
    \E i \in 1..(Len(a) - k + 1) : \E j \in 1..(Len(b) - k + 1) : CommonAt(a, b, i, j, k)
LongestMatch(a, b) ==
    LET k == CHOOSE n \in 0..Min(Len(a), Len(b)) :
                 /\ CommonLen(a, b, n)
                 /\ \A m \in (n + 1)..Min(Len(a), Len(b)) : ~CommonLen(a, b, m)
        i == CHOOSE x \in 1..(Len(a) - k + 1) :
                 /\ \E j \in 1..(Len(b) - k + 1) : CommonAt(a, b, x, j, k)
                 /\ \A y \in 1..(x - 1) :
                       ~\E j \in 1..(Len(b) - k + 1) : CommonAt(a, b, y, j, k)
        j == CHOOSE x \in 1..(Len(b) - k + 1) :
                 /\ CommonAt(a, b, i, x, k)
                 /\ \A y \in 1..(x - 1) : ~CommonAt(a, b, i, y, k)
    IN [i |-> i, j |-> j, k |-> k]

RECURSIVE MatchingSize(_, _)
\* the sum of the sizes of get_matching_blocks(): the longest match, then the
\* matches to its left and to its right
MatchingSize(a, b) ==
    IF a = <<>> \/ b = <<>> THEN 0
    ELSE LET m == LongestMatch(a, b)
         IN IF m.k = 0 THEN 0
            ELSE m.k + MatchingSize(SubSeq(a, 1, m.i - 1), SubSeq(b, 1, m.j - 1))
                     + MatchingSize(SubSeq(a, m.i + m.k, Len(a)),
                                    SubSeq(b, m.j + m.k, Len(b)))

\* int(SequenceMatcher(None, a, b).ratio() * 100), line 93: ratio() is
\* 2.0 * matches / (len(a) + len(b)), and 1.0 for two empty sequences.  On
\* sequences of up to 60 elements together the float product truncates to
\* the integer quotient.
SequenceScore(a, b) ==
    IF Len(a) + Len(b) = 0 THEN 100
    ELSE (200 * MatchingSize(a, b)) \div (Len(a) + Len(b))

\* the scores of the queries and choices of the model, computed once
Queries ==
    UNION {{Lower(Strip(StrOf(v))), Lower(strip_modifiers(Strip(StrOf(v))))} : v \in ClassVals}
Choices ==
    UNION {{Lower(Strip(StrOf(rows[i][1]))) : i \in 1..Len(rows)} : rows \in CategoryFiles}
Scores == [q \in Queries |-> [c \in Choices |-> SequenceScore(q, c)]]
Score(a, b) ==
    IF a \in Queries /\ b \in Choices THEN Scores[a][b] ELSE SequenceScore(a, b)

\* the loop of lines 92-95 from the pair best reached so far
RECURSIVE BestChoice(_, _, _)
BestChoice(q, choices, best) ==
    IF choices = <<>> THEN best
    ELSE BestChoice(q, Tail(choices),
                    IF Score(q, Lower(Head(choices))) > best[2]
                    THEN <<Head(choices), Score(q, Lower(Head(choices)))>>
                    ELSE best)

\* fuzzy_match(query, choices, threshold), lines 88-96
fuzzy_match(query, choices, threshold) ==
    LET best == BestChoice(Lower(query), choices, <<<<>>, 0>>)
    IN IF best[2] >= threshold THEN best ELSE <<<<>>, 0>>

m_manual == <<"m","a","n","u","a","l">>
m_exact == <<"e","x","a","c","t">>
m_regex == <<"r","e","g","e","x">>
m_spelling == <<"s","p","e","l","l","i","n","g">>
m_unmatched == <<"u","n","m","a","t","c","h","e","d">>
\* f"fuzzy({score}%)"
m_fuzzy(score) == <<"f","u","z","z","y","(">> \o Str(score) \o <<"%", ")">>

\* not class_val or (isinstance(class_val, float) and pd.isna(class_val)),
\* line 102; bool(float("nan")) is True
Missing(class_val) == (class_val.k # "nan" /\ ~Truthy(class_val)) \/ class_val.k = "nan"

\* a dict is kept as the sequence of its <<key, value>> pairs in insertion
\* order, every key once
RECURSIVE KeyIndex(_, _, _)
\* the index of key among the first n pairs, 0 if it is not there
KeyIndex(d, key, n) ==
    IF n = 0 THEN 0
    ELSE IF d[n][1] = key THEN n
    ELSE KeyIndex(d, key, n - 1)
HasKey(d, key) == KeyIndex(d, key, Len(d)) # 0
Get(d, key, default) == IF HasKey(d, key) THEN d[KeyIndex(d, key, Len(d))][2] ELSE default
\* d[key] = value
Put(d, key, value) ==
    IF HasKey(d, key) THEN [d EXCEPT ![KeyIndex(d, key, Len(d))] = <<key, value>>]
    ELSE Append(d, <<key, value>>)
\* list(d.keys())
Keys(d) == [i \in 1..Len(d) |-> d[i][1]]

RECURSIVE CatLookup(_, _)
\* lines 220-226: the category lookup of the rows <<name, categories>> of
\* the category map, the first row of a name kept
CatLookup(rows, cat_lookup) ==
    IF rows = <<>> THEN cat_lookup
    ELSE CatLookup(Tail(rows),
                   IF HasKey(cat_lookup, Strip(StrOf(Head(rows)[1]))) THEN cat_lookup
                   ELSE Append(cat_lookup, <<Strip(StrOf(Head(rows)[1])),
                                             Strip(StrOf(Head(rows)[2]))>>))

RECURSIVE ManualLookup(_, _)
\* lines 230-237: the manual override table of the rows <<source_class,
\* category_id>> of the mapping file, the last row of a class kept and the
\* rows without a category id left out
ManualLookup(rows, manual_lookup) ==
    IF rows = <<>> THEN manual_lookup
    ELSE ManualLookup(Tail(rows),
                      IF Strip(StrOf(Head(rows)[2])) # <<>>
                         /\ Lower(Strip(StrOf(Head(rows)[2]))) \notin {s_nan, <<>>}
                      THEN Put(manual_lookup, Strip(StrOf(Head(rows)[1])),
                               Strip(StrOf(Head(rows)[2])))
                      ELSE manual_lookup)

\* (category_id, matched_name, method)
Resolved(category_id, matched_name, method) ==
    [category_id |-> category_id, matched_name |-> matched_name, method |-> method]
Unmatched == Resolved(<<>>, <<>>, m_unmatched)

RECURSIVE FirstNamed(_, _, _)
\* the loops of lines 113-115, 121-123 and 128-130: the index of the first
\* pair of cat_lookup from the i-th on whose name in lower case is target,
\* 0 if there is none
FirstNamed(cat_lookup, target, i) ==
    IF i > Len(cat_lookup) THEN 0
    ELSE IF Lower(cat_lookup[i][1]) = target THEN i
    ELSE FirstNamed(cat_lookup, target, i + 1)
NamedResult(cat_lookup, target, method) ==
    Resolved(cat_lookup[FirstNamed(cat_lookup, target, 1)][2],
             cat_lookup[FirstNamed(cat_lookup, target, 1)][1], method)

\* SPELLING_FIXES.get(val_lower), line 126
SpellingFix(val_lower) == Get(SPELLING_FIXES, val_lower, <<>>)

RECURSIVE FuzzyLayer(_, _, _, _)
\* Layer 5, lines 134-137: the first candidate with a fuzzy match
FuzzyLayer(candidates, cat_lookup, cat_names, fuzzy_threshold) ==
    IF candidates = <<>> THEN Unmatched
    ELSE IF fuzzy_match(Head(candidates), cat_names, fuzzy_threshold)[1] # <<>>
         THEN Resolved(Get(cat_lookup,
                           fuzzy_match(Head(candidates), cat_names, fuzzy_threshold)[1], <<>>),
                       fuzzy_match(Head(candidates), cat_names, fuzzy_threshold)[1],
                       m_fuzzy(fuzzy_match(Head(candidates), cat_names, fuzzy_threshold)[2]))
    ELSE FuzzyLayer(Tail(candidates), cat_lookup, cat_names, fuzzy_threshold)

\* Layers 4 and 5, lines 125-139
SpellingLayer(val, cat_lookup, cat_names, use_regex, use_fuzzy, fuzzy_threshold) ==
    IF SpellingFix(Lower(val)) # <<>> /\ FirstNamed(cat_lookup, SpellingFix(Lower(val)), 1) # 0
    THEN NamedResult(cat_lookup, SpellingFix(Lower(val)), m_spelling)
    ELSE IF use_fuzzy
         THEN FuzzyLayer(<<val>> \o (IF use_regex THEN <<strip_modifiers(val)>> ELSE <<>>),
                         cat_lookup, cat_names, fuzzy_threshold)
    ELSE Unmatched

\* Layer 3, lines 117-123, and the layers after it
RegexLayer(val, cat_lookup, cat_names, use_regex, use_fuzzy, fuzzy_threshold) ==
    IF use_regex /\ Lower(strip_modifiers(val)) # Lower(val)
       /\ FirstNamed(cat_lookup, Lower(strip_modifiers(val)), 1) # 0
    THEN NamedResult(cat_lookup, Lower(strip_modifiers(val)), m_regex)
    ELSE SpellingLayer(val, cat_lookup, cat_names, use_regex, use_fuzzy, fuzzy_threshold)

\* Layers 1 and 2, lines 107-115, and the layers after them
ManualLayer(val, cat_lookup, manual_lookup, cat_names, use_regex, use_fuzzy, fuzzy_threshold) ==
    IF HasKey(manual_lookup, val)
    THEN Resolved(Get(manual_lookup, val, <<>>), val, m_manual)
    ELSE IF FirstNamed(cat_lookup, Lower(val), 1) # 0
         THEN NamedResult(cat_lookup, Lower(val), m_exact)
    ELSE RegexLayer(val, cat_lookup, cat_names, use_regex, use_fuzzy, fuzzy_threshold)

\* resolve_category, lines 99-139
resolve_category(class_val, cat_lookup, manual_lookup, cat_names, use_regex, use_fuzzy, fuzzy_threshold) ==
    IF Missing(class_val) THEN Unmatched
    ELSE ManualLayer(Strip(StrOf(class_val)), cat_lookup, manual_lookup, cat_names,
                     use_regex, use_fuzzy, fuzzy_threshold)

(***************************************************************************)
(* resolve_category as a process: the call of lines 258-261 for one row of *)
(* the source file, with one action for each of its returns.               *)
(***************************************************************************)
\* the arguments of the call for a Class cell, the two uploaded files and
\* the settings
Args(class_val, category_rows, mapping_rows, use_regex, use_fuzzy, fuzzy_threshold) ==
    [class_val |-> class_val,
     cat_lookup |-> CatLookup(category_rows, <<>>),
     manual_lookup |-> ManualLookup(mapping_rows, <<>>),
     cat_names |-> Keys(CatLookup(category_rows, <<>>)),
     use_regex |-> use_regex, use_fuzzy |-> use_fuzzy,
     fuzzy_threshold |-> fuzzy_threshold]
Calls ==
    {Args(v, c, m, r, f, t) : v \in ClassVals, c \in CategoryFiles, m \in MappingFiles,
                              r \in BOOLEAN, f \in BOOLEAN, t \in Thresholds}

\* what the calls of the model return, computed once
Resolutions ==
    [a \in Calls |->
        resolve_category(a.class_val, a.cat_lookup, a.manual_lookup, a.cat_names,
                         a.use_regex, a.use_fuzzy, a.fuzzy_threshold)]

\* the return statement a call ends with, from its arguments and its result
ReturnOf(a, ret) ==
    CASE Missing(a.class_val) -> "missing"
      [] ret.method = m_manual -> "manual"
      [] ret.method = m_exact -> "exact"
      [] ret.method = m_regex -> "regex"
      [] ret.method = m_spelling -> "spelling"
      [] ret.method = m_unmatched -> "unmatched"
      [] OTHER -> "fuzzy"

InitCategory ==
    /\ rc_args \in Calls
    /\ rc_pc = "start"
    /\ rc_ret = <<>>
    /\ IdleButCategory

RC_Return(layer) ==
    /\ rc_pc = "start"
    /\ ReturnOf(rc_args, Resolutions[rc_args]) = layer
    /\ rc_pc' = layer
    /\ rc_ret' = Resolutions[rc_args]
    /\ UNCHANGED <<rc_args, otherThanCategory>>

\* line 103
RC_Missing == RC_Return("missing")
\* line 109
RC_Manual == RC_Return("manual")
\* line 115
RC_Exact == RC_Return("exact")
\* line 123
RC_Regex == RC_Return("regex")
\* line 130
RC_Spelling == RC_Return("spelling")
\* line 137
RC_Fuzzy == RC_Return("fuzzy")
\* line 139
RC_Unmatched == RC_Return("unmatched")

NextCategory ==
    \/ RC_Missing
    \/ RC_Manual
    \/ RC_Exact
    \/ RC_Regex
    \/ RC_Spelling
    \/ RC_Fuzzy
    \/ RC_Unmatched

SpecCategory == InitCategory /\ [][NextCategory]_vars

(***************************************************************************)
(* strip_modifiers as a process: a call on a class name, and a call on     *)
(* what that call returned.                                                *)
(***************************************************************************)
\* the most words of a class name
MaxNameWords == 3
NameWords ==
    { <<"W","o","v","e","n">>, <<"L","o","n","g"," ","S","l","e","e","v","e">>,
      <<"s","p","o","r","t">>, <<"D","r","e","s","s">>, <<"S","e","t">>, <<"&">> }
\* the class names of the model: words separated by a space
ClassNames == {Join(ws, <<" ">>) : ws \in SeqsUpTo(NameWords, MaxNameWords) \ {<<>>}}

InitStrip ==
    /\ sm_text \in ClassNames
    /\ sm_pc = "start"
    /\ sm_ret = <<>>
    /\ sm_calls = 0
    /\ IdleButStrip

\* lines 81-85: the call returns
SM_Return ==
    /\ sm_pc = "start"
    /\ sm_ret' = strip_modifiers(sm_text)
    /\ sm_pc' = "returned"
    /\ sm_calls' = sm_calls + 1
    /\ UNCHANGED <<sm_text, otherThanStrip>>

\* strip_modifiers is called on the string the first call returned
SM_Again ==
    /\ sm_pc = "returned" /\ sm_calls = 1
    /\ sm_text' = sm_ret
    /\ sm_pc' = "start"
    /\ UNCHANGED <<sm_ret, sm_calls, otherThanStrip>>

NextStrip == SM_Return \/ SM_Again

SpecStrip == InitStrip /\ [][NextStrip]_vars

(***************************************************************************)
(* The SKU Category Splitter, src/pages/live.py.  A row of the uploaded    *)
(* file is kept as the value of its category cell; its SKU is its index.   *)
(* A member of the zip file is the name it was written under, the category *)
(* it was written for and the indices of the rows of its CSV.              *)
(***************************************************************************)
\* the most rows of an uploaded file
MaxRows == 3
s_csv == <<".","c","s","v">>
c_FA == <<"F","A">>
c_Fashion == <<"F","a","s","h","i","o","n">>
\* CATEGORY_MAPPING, lines 7-49: the entries of the codes the model uses
CATEGORY_MAPPING ==
    << <<c_FA, c_Fashion>>,
       << <<"H","B">>, <<"H","e","a","l","t","h"," ","&"," ","B","e","a","u","t","y">> >> >>
\* the values of a category cell: codes, a code with a space before it, a
\* full name, names with "/" and "_", and the empty cell, which read_csv
\* gives as NaN
CategoryCells ==
    { PyStr(c_FA), PyStr(<<" ">> \o c_FA), PyStr(c_Fashion), PyStr(<<"H","B">>),
      PyStr(<<"A","/","B">>), PyStr(<<"A","_","B">>), PyNaN }
\* the f-string of line 101 holds a backslash in an expression, a
\* SyntaxError before Python 3.12
Interpreters == {"3.11", "3.12"}
Uploads ==
    {[python |-> v, rows |-> r, same_col |-> c] :
        v \in Interpreters, r \in SeqsUpTo(CategoryCells, MaxRows), c \in BOOLEAN}

RECURSIVE Unique(_, _)
\* Series.unique(), line 90: the values in the order they first appear, NaN
\* once
Unique(rows, seen) ==
    IF rows = <<>> THEN seen
    ELSE Unique(Tail(rows),
                IF \E i \in 1..Len(seen) : seen[i] = Head(rows) THEN seen
                ELSE Append(seen, Head(rows)))

\* processed_df[processed_df[cat_col] == cat], line 94: the rows whose cell
\* equals cat; NaN equals nothing, itself included
RowsOf(rows, cat) == {i \in 1..Len(rows) : rows[i] = cat /\ cat.k # "nan"}

\* str.replace('/', '_').replace('\\', '_')
Sanitize(name) ==
    [i \in 1..Len(name) |-> IF name[i] \in {"/", "\\"} THEN "_" ELSE name[i]]

\* file_name of lines 99-101
FileName(cat) ==
    Sanitize(Get(CATEGORY_MAPPING, Strip(StrOf(cat)), StrOf(cat))) \o s_csv

Member(file_name, cat, rows) == [name |-> file_name, cat |-> cat, rows |-> rows]

InitSplitter ==
    /\ sp_in \in Uploads
    /\ sp_pc = "load"
    /\ sp_todo = <<>>
    /\ sp_zip = <<>>
    /\ IdleButSplitter

\* the page does not compile: nothing of it runs
SP_SyntaxError ==
    /\ sp_pc = "load" /\ sp_in.python = "3.11"
    /\ sp_pc' = "syntax_error"
    /\ UNCHANGED <<sp_in, sp_todo, sp_zip, otherThanSplitter>>

\* lines 72-75 and 90 with one column chosen as SKU and as category: the
\* rename of line 75 renames both copies, processed_df[cat_col] raises
\* KeyError, and the handler of lines 112-113 reports it
SP_KeyError ==
    /\ sp_pc = "load" /\ sp_in.python = "3.12" /\ sp_in.same_col
    /\ sp_pc' = "error"
    /\ UNCHANGED <<sp_in, sp_todo, sp_zip, otherThanSplitter>>

\* lines 72-90: Generate CSV Zip is pressed, the zip file is opened
SP_Generate ==
    /\ sp_pc = "load" /\ sp_in.python = "3.12" /\ ~sp_in.same_col
    /\ sp_pc' = "writing"
    /\ sp_todo' = Unique(sp_in.rows, <<>>)
    /\ UNCHANGED <<sp_in, sp_zip, otherThanSplitter>>

\* lines 92-104: the CSV of the next category is written to the zip file
SP_Write ==
    /\ sp_pc = "writing" /\ sp_todo # <<>>
    /\ sp_zip' = Append(sp_zip, Member(FileName(Head(sp_todo)), Head(sp_todo),
                                       RowsOf(sp_in.rows, Head(sp_todo))))
    /\ sp_todo' = Tail(sp_todo)
    /\ UNCHANGED <<sp_in, sp_pc, otherThanSplitter>>

\* lines 106-112: the zip file is closed and offered for download
SP_Download ==
    /\ sp_pc = "writing" /\ sp_todo = <<>>
    /\ sp_pc' = "done"
    /\ UNCHANGED <<sp_in, sp_todo, sp_zip, otherThanSplitter>>

NextSplitter ==
    \/ SP_SyntaxError
    \/ SP_KeyError
    \/ SP_Generate
    \/ SP_Write
    \/ SP_Download

SpecSplitter == InitSplitter /\ [][NextSplitter]_vars

(***************************************************************************)
(* The Scrape Category button of the page script, lines 325-341: the       *)
(* validation of category_url and the call of get_product_links, whose     *)
(* first statement past the depth test fetches category_url (line 146).    *)
(***************************************************************************)
s_product == <<"p","r","o","d","u","c","t">>
h_www_jumia == <<"w","w","w",".","j","u","m","i","a",".","c","o",".","k","e">>
h_example == <<"w","w","w",".","e","x","a","m","p","l","e",".","c","o","m">>
h_lookalike == <<"j","u","m","i","a",".","c","o",".","k","e",".","e","x","a","m","p","l","e",".","c","o","m">>

\* f"{parsed_url.scheme}://{parsed_url.netloc}", line 328
BaseUrl(parsed_url) == parsed_url.scheme \o <<":","/","/">> \o parsed_url.netloc

\* the test of line 329
InvalidUrl(parsed_url) ==
    \/ ~(/\ parsed_url.scheme # <<>>
         /\ parsed_url.netloc # <<>>
         /\ Contains(BaseUrl(parsed_url), s_jumia_co_ke))
    \/ Contains(Lower(parsed_url.path), s_product)

\* the test of line 331
ExcludedUrl(parsed_url) == Excluded(parsed_url.path)

\* the URLs typed into the input: a scheme or none, a host or none, a path
Schemes == {<<>>, s_https \o <<":","/","/">>, s_http \o <<":","/","/">>, <<"/","/">>}
Hosts == {<<>>, h_www_jumia, s_jumia_co_ke, h_example, h_lookalike}
CategorySlugs ==
    { <<"f","a","s","h","i","o","n">>,
      <<"b","a","b","y","-","p","r","o","d","u","c","t","s">>,
      <<"p","h","o","n","e","s","-","t","a","b","l","e","t","s">>,
      <<"e","l","e","c","t","r","o","n","i","c","s">>,
      <<"h","e","a","l","t","h","-","b","e","a","u","t","y">> }
OtherPaths ==
    { <<>>, <<"/">>,
      <<"/","c","a","r","t","/">>,
      <<"/","c","u","s","t","o","m","e","r","/","a","c","c","o","u","n","t","/","l","o","g","i","n","/">>,
      <<"/","m","l","p","-","s","t","o","r","e","s","/">>,
      <<"/","f","l","a","s","h","-","s","a","l","e","s","/">>,
      <<"/","P","r","o","d","u","c","t","/","a","b","c","/">>,
      <<"/","s","a","m","s","u","n","g","-","g","a","l","a","x","y","-","a","0","5","-","1","2","3","4","5",".","h","t","m","l">>,
      <<"/","c","a","t","a","l","o","g","/","p","r","o","d","u","c","t","r","a","t","i","n","g","s","r","e","v","i","e","w","s","/","s","k","u","/","A","B","1","2","3","/">> }
Paths == {<<"/">> \o c \o <<"/">> : c \in CategorySlugs} \cup OtherPaths
TypedUrls == {s \o h \o p : s \in Schemes, h \in Hosts, p \in Paths}

InitButton ==
    /\ sc_url \in TypedUrls
    /\ sc_pc = "start"
    /\ sc_fetched = {}
    /\ IdleButButton

\* lines 329-330 and 333-335: the URL is refused, st.stop() ends the run
SC_Invalid ==
    /\ sc_pc = "start"
    /\ InvalidUrl(urlparse(sc_url, <<>>))
    /\ sc_pc' = "invalid"
    /\ UNCHANGED <<sc_url, sc_fetched, otherThanButton>>

\* lines 331-335: the path holds an excluded word, st.stop() ends the run
SC_Excluded ==
    /\ sc_pc = "start"
    /\ ~InvalidUrl(urlparse(sc_url, <<>>))
    /\ ExcludedUrl(urlparse(sc_url, <<>>))
    /\ sc_pc' = "excluded"
    /\ UNCHANGED <<sc_url, sc_fetched, otherThanButton>>

\* lines 337-341 and 146: link collection starts and fetches category_url
SC_Collect ==
    /\ sc_pc = "start"
    /\ ~InvalidUrl(urlparse(sc_url, <<>>))
    /\ ~ExcludedUrl(urlparse(sc_url, <<>>))
    /\ sc_pc' = "collecting"
    /\ sc_fetched' = sc_fetched \cup {sc_url}
    /\ UNCHANGED <<sc_url, otherThanButton>>

NextButton == SC_Invalid \/ SC_Excluded \/ SC_Collect

SpecButton == InitButton /\ [][NextButton]_vars

(***************************************************************************)
(* Claims about parse_product, extract_basic_fields and                    *)
(* extract_warranty_fields, checked under SpecProduct.                     *)
(***************************************************************************)
\* extract_basic_fields has returned (parse_product may still have raised later)
BasicReturned == pp_pc \in {"done", "raised"} /\ pp_page.fetch = "ok" /\ ~pp_basic.raised
\* parse_product has returned the record of a fetched page
Parsed == pp_pc = "done" /\ pp_page.fetch = "ok"

\* the value the first ld+json Product object carries for a field
StructuredValue(page, f) ==
    IF page.ld = <<>> THEN Absent
    ELSE LET p == page.ld[1]
         IN CASE f = "name" -> p.name
              [] f = "sku" -> p.sku
              [] f = "price" -> IF p.offers.k = "dict" THEN p.offers.price ELSE Absent
              [] f = "seller" -> IF p.offers.k = "dict" /\ p.offers.seller.k = "dict"
                                 THEN p.offers.seller.name ELSE Absent
\* a value that is there and not empty
NonEmpty(v) == v.k \in {"str", "num"} /\ v.s # <<>>
\* the text of the element the heuristic of a field matches, if any
HeuristicText(page, f) ==
    LET w == Walk(page.dom, {})
        n == CASE f = "name" -> select_one(w, "h1").n
               [] f = "price" -> select_one(w, "price").n
               [] f = "seller" -> select_one(w, "seller").n
               [] f = "sku" -> NoNode
    IN IF n = NoNode THEN <<>> ELSE Strip(GetText(n, <<" ">>))
HasConflict(page, f) ==
    /\ NonEmpty(StructuredValue(page, f))
    /\ HeuristicText(page, f) # <<>>
    /\ PyStr(HeuristicText(page, f)) # StructuredValue(page, f)

\* C1 (as claimed): every data field of a record parse_product returns for a
\* fetched page is a non-empty string, and a field that nothing on the page
\* resolves is exactly "Not indicated".
C1_SentinelCompleteness ==
    Parsed =>
        /\ \A f \in DataFields : pp_rec[f].k = "str" /\ pp_rec[f].s # <<>>
        /\ pp_page.ld = <<>> /\ pp_page.dom = <<>> =>
               \A f \in DataFields : pp_rec[f] = NA

HasFollowMatch(page) ==
    \E i \in 1..Len(Walk(page.dom, {})) :
        LET e == Walk(page.dom, {})[i]
        IN (SellerSel(e) \/ TextSel(e)) /\ Lower(Strip(GetText(e.n, <<" ">>))) = s_follow
\* the seller element the direct selector matches reads "follow"
SellerNodeIsFollow(page) ==
    Lower(HeuristicText(page, "seller")) = s_follow

\* C3: a heuristic seller match reading "Follow" in any letter case is never
\* returned: without a structured seller the returned seller is not that text,
\* and with the direct selector matching such an element the seller is the
\* structured one, else "Jumia" from the Jumia Express image, else the sentinel.
C3_FollowRejected ==
    BasicReturned =>
        /\ StructuredValue(pp_page, "seller") = Absent /\ HasFollowMatch(pp_page)
              => pp_basic.seller.k = "str" /\ Lower(pp_basic.seller.s) # s_follow
        /\ SellerNodeIsFollow(pp_page) =>
              \/ pp_basic.seller = StructuredValue(pp_page, "seller")
              \/ pp_basic.seller = PyStr(s_Jumia)
                   /\ \E i \in 1..Len(pp_page.dom) : pp_page.dom[i] = ExpressBlock
              \/ pp_basic.seller = NA
W_C3 ==
    /\ pp_pc = "done"
    /\ pp_page.ld = <<>>
    /\ SellerNodeIsFollow(pp_page)
    /\ HeuristicText(pp_page, "seller") = t_Follow
    /\ pp_basic.seller = NA

\* the page consists of label/value rows "Warranty Address: 123 Main St" only
OnlyAddressRows(page) ==
    /\ page.ld = <<>>
    /\ page.dom # <<>>
    /\ \A i \in 1..Len(page.dom) : page.dom[i] \in AddressRows

\* C4 (as claimed): a row labelled "Warranty Address" populates the warranty
\* address and not the warranty specs; with only such rows on the page the
\* specs stay "Not indicated".
C4_AddressBeforeSpecs ==
    Parsed /\ OnlyAddressRows(pp_page) =>
        /\ pp_warr.specs = NA
        /\ pp_warr.address # NA
        /\ Contains(pp_warr.address.s, t_MainSt)

\* digits, an optional white-space character and a unit, from position i on
DurationAt(l, i, units) ==
    \E j \in i..Len(l) :
        /\ \A k \in i..j : IsDigit(l[k])
        /\ \E u \in units : MatchAt(l, j + 1, u) \/ (IsSpace(l[j + 1]) /\ MatchAt(l, j + 2, u))
\* the pattern of the claim: "warranty", or digits, optional space and one of
\* yr, yrs, year, years, anywhere in the title
ClaimedTitlePattern(s) ==
    LET l == Lower(s) \o <<"$">>
    IN \/ Contains(l, s_warranty)
       \/ \E i \in 1..Len(s) :
              DurationAt(l, i, {s_yr, s_yr \o <<"s">>, s_year, s_year \o <<"s">>})
\* the pattern of the code: "warranty", or digits that start at a word boundary,
\* an optional white-space character and one of yr, year, month
CodeTitlePattern(s) ==
    LET l == Lower(s) \o <<"$">>
    IN \/ \E i \in 1..Len(s) : MatchAt(l, i, s_warranty)
       \/ \E i \in 1..Len(s) :
              /\ i > 1 => ~IsWordChar(l[i - 1])
              /\ DurationAt(l, i, {s_yr, s_year, s_month})
TitleIn == IF Truthy(pp_basic.name) THEN pp_basic.name.s ELSE <<>>

\* C5 (as claimed): the warranty title is the full title when the title
\* matches "warranty" or digits, optional space and yr, yrs, year or years,
\* and "Not indicated" for every other title.
C5_TitleAsClaimed ==
    Parsed =>
        pp_warr.title = IF ClaimedTitlePattern(TitleIn) THEN pp_basic.name ELSE NA

\* C5 (amended): the warranty title is the full title when the title matches,
\* case-insensitively, "warranty" or digits starting at a word boundary
\* followed by an optional white-space character and yr, year or month (so
\* yrs, years, months too), and "Not indicated" for every other title.
C5_TitleClassification ==
    Parsed =>
        pp_warr.title = IF CodeTitlePattern(TitleIn) THEN pp_basic.name ELSE NA
W_C5 ==
    /\ pp_pc = "done"
    /\ pp_basic.name = PyStr(t_LaptopBag2YW)
    /\ pp_warr.title = PyStr(t_LaptopBag2YW)
    /\ pp_rec.wtitle = PyStr(t_LaptopBag2YW)

\* a structured value that is there but null or empty
EmptyValue(v) == v \in {PyNone, PyStr(<<>>)}
\* the value a field takes from its heuristic match: the text of the match,
\* for the price with every character but digits and "." removed
HeuristicValue(page, f) ==
    IF f = "price"
    THEN PyStr(SelectSeq(HeuristicText(page, f), LAMBDA c : IsDigit(c) \/ c = "."))
    ELSE PyStr(HeuristicText(page, f))

\* C17 (as claimed): when the first Product object carries a null or empty
\* value for name, price, sku or seller and the document holds a heuristic
\* match for the field (for the seller, one that is not a "follow" text),
\* the field is returned as the heuristic match.
C17_EmptyStructuredFallsBack ==
    BasicReturned =>
        \A f \in {"name", "price", "sku", "seller"} :
            /\ EmptyValue(StructuredValue(pp_page, f))
            /\ HeuristicText(pp_page, f) # <<>>
            /\ ~Contains(Lower(HeuristicText(pp_page, f)), s_follow)
            => pp_basic[f] = HeuristicValue(pp_page, f)

\* the first p/div/span of the textual scan of lines 254-258, as the seller
SellerScanValue(page) ==
    PyStr(text_or_na(select_one(Walk(page.dom, {}), "seller text").n))
\* the direct seller selector matches an element whose text holds "follow",
\* and the document holds a block the textual scan accepts
RejectedNodeAndSellerBlock(page) ==
    LET w == Walk(page.dom, {})
        seller_node == select_one(w, "seller").n
    IN /\ LdFields(page).seller = NA
       /\ seller_node # NoNode
       /\ ~SellerAccepted(text_or_na(seller_node))
       /\ \E i \in 1..Len(w) : SellerScanSel(w[i])

\* C18 (as claimed): when no structured seller is there and the direct seller
\* selector matches an element rejected for its "follow" text, the textual
\* scan over p/div/span runs next: a page that also holds a valid "seller"
\* text block returns that block as the seller.
C18_RejectedSellerRetries ==
    BasicReturned /\ RejectedNodeAndSellerBlock(pp_page)
        => pp_basic.seller = SellerScanValue(pp_page)

\* a specification table with one row labelled "Warranty" and one labelled
\* "Warranty Address", in either order
TwoRowTables ==
    { SpecTable(<<Row(t_Warranty, t_1Year), Row(t_WarrantyAddress, t_MainSt)>>),
      SpecTable(<<Row(t_WarrantyAddress, t_MainSt), Row(t_Warranty, t_1Year)>>) }

\* C19 (as claimed): the label/value scan goes on over the remaining rows
\* after one field is resolved: a document made of one block with a row
\* "Warranty: 1 Year" and a row "Warranty Address: 123 Main St", in either
\* order, gives warrantySpecs from the first and warrantyAddress from the
\* second.
C19_BothWarrantyRows ==
    Parsed /\ pp_page.ld = <<>> /\ Len(pp_page.dom) = 1 /\ pp_page.dom[1] \in TwoRowTables
        => /\ pp_warr.specs = PyStr(t_1Year)
           /\ pp_warr.address = PyStr(t_MainSt)

(***************************************************************************)
(* Claims about parse_links_from_grid, checked under SpecGrid.             *)
(***************************************************************************)
GridDone == pg_pc \in {"grid", "cards", "generic"}
\* the href of the first anchor with an href below a card, Absent if none
FirstHref(card) ==
    IF SelectSeq(Nodes(Walk(card.kids, {})), AnchorSel) = <<>> THEN Absent
    ELSE SelectSeq(Nodes(Walk(card.kids, {})), AnchorSel)[1].href
\* the hrefs each strategy is given to read: the first anchors of the cards
\* of the first grid, the first anchor of the first card, every anchor
HrefsRead(soup, strategy) ==
    CASE strategy = "grid" ->
           LET g == SelectSeq(Nodes(Walk(soup, {})), GridSel)[1]
           IN {FirstHref(product_cards(g)[i]) : i \in 1..Len(product_cards(g))}
      [] strategy = "cards" ->
           {FirstHref(SelectSeq(Nodes(Walk(soup, {})), CardSel)[1])}
      [] strategy = "generic" ->
           {n.href : n \in {Walk(soup, {})[i].n : i \in 1..Len(Walk(soup, {}))}}

\* C7 (as claimed): under each of the three strategies every returned link
\* is an absolute URL without "#", and an href "/product/abc.html#reviews"
\* the strategy reads is returned as "https://example.test/product/abc.html".
C7_AbsoluteNoFragment ==
    GridDone =>
        /\ \A u \in pg_links :
              ~Contains(u, <<"#">>) /\ StartsWith(u, s_https \o <<":","/","/">>)
        /\ PyStr(h_abc_reviews) \in HrefsRead(pg_soup, pg_pc) => u_abc \in pg_links

\* every qualifying link of the cards strategy (b) matches on the page
AllCardLinks(soup, base_url) ==
    UNION {CardLink(SelectSeq(Nodes(Walk(soup, {})), CardSel)[i], base_url) :
              i \in 1..Len(SelectSeq(Nodes(Walk(soup, {})), CardSel))}

\* C12 (as claimed): the strategies are applied in the order grid, cards,
\* generic; the result is the complete set of qualifying links of the first
\* strategy that yields any, and no link of a later strategy is added.
C12_FirstStrategyComplete ==
    GridDone =>
        /\ pg_pc = "grid" <=> Strategy1(pg_soup, ExampleBase) # {}
        /\ pg_pc = "cards" <=>
              Strategy1(pg_soup, ExampleBase) = {} /\ AllCardLinks(pg_soup, ExampleBase) # {}
        /\ pg_links = CASE pg_pc = "grid" -> Strategy1(pg_soup, ExampleBase)
                        [] pg_pc = "cards" -> AllCardLinks(pg_soup, ExampleBase)
                        [] pg_pc = "generic" -> Strategy3(pg_soup, ExampleBase)

(***************************************************************************)
(* Claims about get_product_links, checked under SpecLinks and             *)
(* SpecLinksFair.                                                          *)
(***************************************************************************)
\* a call has just returned because page cl_last.page held no new link
StoppedOnStalePage == cl_last.stop = "nonew"

\* C6 (as claimed): a call that stops at a page N > 1 holding no new link has
\* fetched no page after N and returns the links of pages 1..N-1, each once.
C6_StopAsClaimed ==
    StoppedOnStalePage =>
        /\ cl_last.page > 1
        /\ cl_last.tried = cl_last.page
        /\ SetOf(cl_last.ret) = cl_last.pgs
        /\ \A u \in SetOf(cl_last.ret) : cl_last.ret[u] = 1

\* C6 (amended): a call never goes past a page N > 1 that holds no new link,
\* and a call that stops at such a page has fetched no page after N and
\* returns the links merged from its subcategories together with the links
\* of pages 1..N-1, each once.
C6_StopOnStalePage ==
    /\ \A i \in 1..Len(cl_stack) :
          cl_stack[i].pc = "loop" /\ cl_stack[i].page > 2 => cl_stack[i].last_new # {}
    /\ StoppedOnStalePage =>
          /\ cl_last.page > 1
          /\ cl_last.tried = cl_last.page
          /\ SetOf(cl_last.ret) = cl_last.sub \cup cl_last.pgs
          /\ \A u \in SetOf(cl_last.ret) : cl_last.ret[u] = 1
          /\ cl_last.depth = 0 => cl_ret = cl_last.ret
W_C6 ==
    /\ cl_pc = "returned"
    /\ StoppedOnStalePage
    /\ cl_last.page = 3
    /\ cl_last.sub # {}
    /\ Cardinality(SetOf(cl_ret)) = 3

\* every call in progress is within the depth limit and its loop within
\* MAX_PAGES
C10_Bounded ==
    \A i \in 1..Len(cl_stack) :
        /\ cl_stack[i].depth = i - 1
        /\ cl_stack[i].depth > 1 => cl_stack[i].pc = "entry"
        /\ cl_stack[i].pc = "loop" =>
              /\ cl_stack[i].max_pages <= MAX_PAGES
              /\ cl_stack[i].page <= cl_stack[i].max_pages + 1
              /\ cl_stack[i].tried <= MAX_PAGES

\* C10: whatever the listing source serves, the page count of every
\* pagination loop is at most MAX_PAGES, no loop fetches more than MAX_PAGES
\* pages, no call deeper than depth 1 fetches anything, and the call of the
\* page script returns.
C10_Terminates == []C10_Bounded /\ <>(cl_pc = "returned")
W_C10 ==
    /\ cl_pc = "returned"
    /\ cl_src = "fresh"
    /\ cl_last.stop = "exhausted"
    /\ cl_last.tried = MAX_PAGES
    /\ cl_last.sub # {}
    /\ Cardinality(SetOf(cl_ret)) > MAX_PAGES

(***************************************************************************)
(* Claims about the scrape loop, checked under SpecPool.                   *)
(***************************************************************************)
\* the script is through with the loop, one way or the other
PoolOver == pool_pc \in {"complete", "aborted"}
\* the URLs whose fetch failed
FailedFetches ==
    {u \in DOMAIN pool_fut :
        pool_fut[u].st \in {"finished", "yielded"} /\ ~pool_fut[u].out.fetched}
\* the records of a URL in results
RecordsOf(u) == {i \in 1..Len(pool_results) : pool_results[i].url = u}

\* C8 (as claimed): when the fetch of one URL among M fails, the script ends
\* with M records: the record of the failed URL holds "Error fetching page"
\* in its seven data fields and the URL, the record of every other URL is
\* the one parse_product returns for its page.
C8_FetchFailureIsolated ==
    PoolOver /\ Cardinality(FailedFetches) = 1 =>
        /\ pool_pc = "complete"
        /\ Len(pool_results) = Len(pool_links)
        /\ \A u \in DOMAIN pool_fut :
              \E i \in 1..Len(pool_results) :
                  IF u \in FailedFetches
                  THEN /\ pool_results[i].url = u
                       /\ \A f \in DataFields : pool_results[i][f] = PyStr(ErrorFetching)
                  ELSE pool_results[i] = ParseResults[u][pool_pages[u]].rec

\* C9 (as claimed): whatever the outcomes of the products (a record, a
\* failed fetch, an exception raised by the extraction), the loop is never
\* left by an exception, and once the script is through results holds
\* exactly one record for every collected URL.
C9_BatchNeverAborts ==
    /\ pool_pc \notin {"aborting", "aborted"}
    /\ PoolOver =>
          /\ Len(pool_results) = Len(pool_links)
          /\ \A u \in DOMAIN pool_fut : Cardinality(RecordsOf(u)) = 1

\* C11: a call whose fetch of page N fails under both formats returns, with
\* no error, the links it had accumulated before page N: those merged from
\* its subcategories and those of pages 1..N-1, each once.  Only that call's
\* loop ends: the call of the page script returns them to the script, a call
\* on a subcategory hands them to its caller, which merges them and goes on.
C11_PageFailureEndsLoop ==
    cl_last.stop = "pagefail" =>
        /\ cl_last.tried = cl_last.page
        /\ SetOf(cl_last.ret) = cl_last.sub \cup cl_last.pgs
        /\ \A u \in SetOf(cl_last.ret) : cl_last.ret[u] = 1
        /\ IF cl_last.depth = 0
           THEN cl_pc = "returned" /\ cl_ret = cl_last.ret
           ELSE /\ cl_pc = "running"
                /\ Len(cl_stack) = cl_last.depth
                /\ Top.pc = "subcats"
                /\ SetOf(cl_last.ret) \subseteq Top.all_links
W_C11 ==
    /\ cl_last.stop = "pagefail"
    /\ cl_last.depth = 0
    /\ cl_last.page = 2
    /\ cl_last.sub # {}
    /\ cl_last.pgs \ cl_last.sub # {}

\* a call has just returned for a failed fetch
EndedOnFailure == cl_last.stop \in {"nofetch", "pagefail"}

\* C20 (as claimed): the collector makes no retry: a page number of a listing
\* is requested once at most, every call of fetch_page makes one attempt,
\* and a request that fails is the last one of its call of
\* get_product_links, which returns.
C20_NoRetries ==
    /\ \A i, j \in 1..Len(cl_reqs) : cl_reqs[i].page = cl_reqs[j].page => i = j
    /\ \A i \in 1..Len(cl_reqs) :
          /\ cl_reqs[i].attempts = 1
          /\ ~cl_reqs[i].ok => i = Len(cl_reqs) /\ EndedOnFailure

\* a step of the collector that starts the fetch of a listing page
StartsPageFetch ==
    \/ CL_CategoryFailed \/ CL_CategoryFetched
    \/ CL_PageFailed \/ CL_PageNoLinks \/ CL_PageNoNew \/ CL_PageCollected

\* C21 (as claimed): a call of time.sleep lies between every two consecutive
\* calls of fetch_page of the collector: a step that fetches does not follow
\* a fetch without a sleep, and makes one call of fetch_page only; this
\* includes the category page followed by page 1, the second pagination
\* format after the first, and the category pages of subcategories.
C21_SleepBetweenFetches ==
    [][StartsPageFetch => cl_gap # "fetch" /\ Len(cl_reqs') = 1]_vars

\* the futures whose call of parse_product has ended
Completed == InState("finished") \cup InState("yielded")

\* C14 (as claimed): results is written by the as_completed loop only, one
\* append for each completed future: it never holds two records of a URL
\* nor the record of a future the loop has not been handed, and when the
\* script is through with the loop no record of a completed future is
\* missing, however the workers interleave.
C14_OneAppendPerFuture ==
    /\ \A u \in DOMAIN pool_fut : Cardinality(RecordsOf(u)) <= 1
    /\ \A i \in 1..Len(pool_results) : pool_results[i].url \in InState("yielded")
    /\ PoolOver => \A u \in Completed : Cardinality(RecordsOf(u)) = 1

\* C22 (as claimed): the progress is reported once after each product that
\* completes, in any order of completion: the reports are (1, M), (2, M), ...
\* in this order, the N of the last report is the number of records merged
\* so far, there is one report for each future the loop was handed, and when
\* the script is through the last report is (M, M).
C22_ProgressAfterEachProduct ==
    /\ \A i \in 1..Len(pool_prog) : pool_prog[i] = <<i, Len(pool_links)>>
    /\ Len(pool_prog) = Len(pool_results)
    /\ Len(pool_prog) = Cardinality(InState("yielded"))
    /\ PoolOver => pool_prog # <<>> /\ pool_prog[Len(pool_prog)] = <<Len(pool_links), Len(pool_links)>>

\* the calls of parse_product that are executing
Executing == InState("running")
\* parse_product has run for the URL
Processed(u) == pool_fut[u].st \in {"finished", "yielded"}
\* a call is started from the queue only, and a call that was started or has
\* ended is never queued or started again
StartedOnce ==
    \A u \in DOMAIN pool_fut :
        /\ pool_fut'[u].st = "running" /\ pool_fut[u].st # "running"
              => pool_fut[u].st = "queued"
        /\ pool_fut[u].st \in {"running", "finished", "yielded"}
              => pool_fut'[u].st \in {"running", "finished", "yielded"}
        /\ Processed(u) => Processed(u)'

\* C23: at every moment at most MAX_WORKERS calls of parse_product are
\* executing, however many URLs were collected (here one more than the pool
\* has threads); every collected URL is processed in the end, and its call
\* is started once only.
C23_BoundedPool ==
    /\ [](Cardinality(Executing) <= MAX_WORKERS)
    /\ [][StartedOnce]_vars
    /\ <>[](\A u \in DOMAIN pool_fut : Processed(u))
\* the pool is full and a submitted call waits for a thread
W_C23 ==
    /\ Len(pool_links) > MAX_WORKERS
    /\ Cardinality(Executing) = MAX_WORKERS
    /\ InState("queued") # {}

(***************************************************************************)
(* Claims about cancellation, checked under SpecCrawl.                     *)
(***************************************************************************)
\* a step of the scrape loop that dispatches a product: the call is
\* submitted, or a worker starts a submitted call
DispatchesProduct == Pool_Submit \/ Pool_Start

\* C13 (as claimed): once cancellation has been requested, no step starts
\* the fetch of a listing page and no step dispatches a product; a fetch in
\* flight may finish.
C13_NoNewWorkAfterCancel ==
    [][stop_requested => ~(StartsPageFetch \/ DispatchesProduct)]_vars

(***************************************************************************)
(* Claims about resolve_category, checked under SpecCategory.              *)
(***************************************************************************)
CategoryDone == rc_pc \notin {"idle", "start"}
\* str(class_val).strip(), the value of line 105
StrippedClass == Strip(StrOf(rc_args.class_val))

\* C15 (as claimed): whenever the stripped class value is a key of the
\* manual override table, the call returns the table's category id for it,
\* the value itself as the matched name and the method "manual", whatever
\* the category map and the regex and fuzzy settings are.
C15_ManualAlwaysWins ==
    CategoryDone /\ HasKey(rc_args.manual_lookup, StrippedClass) =>
        rc_ret = Resolved(Get(rc_args.manual_lookup, StrippedClass, <<>>),
                          StrippedClass, m_manual)

s_fuzzy_open == <<"f","u","z","z","y","(">>
\* the layers of the help table, in the documented order
Layers == <<"manual", "exact", "regex", "spelling", "fuzzy">>
\* some name of the category map is target, letter case aside
Named(a, target) == \E i \in 1..Len(a.cat_lookup) : Lower(a.cat_lookup[i][1]) = target
\* the values the fuzzy layer compares with the names: the class value and,
\* with regex stripping enabled, the class value without its modifiers
FuzzyCandidates(a, val) == {val} \cup (IF a.use_regex THEN {strip_modifiers(val)} ELSE {})
\* the layer is enabled and matches the class value val of the call
LayerMatches(a, val, layer) ==
    CASE layer = "manual" -> HasKey(a.manual_lookup, val)
      [] layer = "exact" -> Named(a, Lower(val))
      [] layer = "regex" ->
            /\ a.use_regex
            /\ Lower(strip_modifiers(val)) # Lower(val)
            /\ Named(a, Lower(strip_modifiers(val)))
      [] layer = "spelling" ->
            /\ HasKey(SPELLING_FIXES, Lower(val))
            /\ Named(a, Get(SPELLING_FIXES, Lower(val), <<>>))
      [] layer = "fuzzy" ->
            /\ a.use_fuzzy
            /\ \E c \in FuzzyCandidates(a, val) : \E i \in 1..Len(a.cat_names) :
                  Score(Lower(c), Lower(a.cat_names[i])) >= a.fuzzy_threshold
\* the first layer that matches, "unmatched" if none does
FirstLayer(a, val) ==
    IF \E i \in 1..Len(Layers) : LayerMatches(a, val, Layers[i])
    THEN Layers[CHOOSE i \in 1..Len(Layers) :
                    /\ LayerMatches(a, val, Layers[i])
                    /\ \A j \in 1..(i - 1) : ~LayerMatches(a, val, Layers[j])]
    ELSE "unmatched"
\* the layer a method names
MethodLayer(method) ==
    CASE method = m_manual -> "manual"
      [] method = m_exact -> "exact"
      [] method = m_regex -> "regex"
      [] method = m_spelling -> "spelling"
      [] method = m_unmatched -> "unmatched"
      [] StartsWith(method, s_fuzzy_open) -> "fuzzy"
      [] OTHER -> "none"
\* ret is a result of the layer for the class value val
ResultOf(a, val, layer, ret) ==
    CASE layer = "manual" -> ret = Resolved(Get(a.manual_lookup, val, <<>>), val, m_manual)
      [] layer = "exact" ->
            /\ Lower(ret.matched_name) = Lower(val)
            /\ HasKey(a.cat_lookup, ret.matched_name)
            /\ ret.category_id = Get(a.cat_lookup, ret.matched_name, <<>>)
      [] layer = "regex" ->
            /\ Lower(ret.matched_name) = Lower(strip_modifiers(val))
            /\ HasKey(a.cat_lookup, ret.matched_name)
            /\ ret.category_id = Get(a.cat_lookup, ret.matched_name, <<>>)
      [] layer = "spelling" ->
            /\ Lower(ret.matched_name) = Get(SPELLING_FIXES, Lower(val), <<>>)
            /\ HasKey(a.cat_lookup, ret.matched_name)
            /\ ret.category_id = Get(a.cat_lookup, ret.matched_name, <<>>)
      [] layer = "fuzzy" ->
            /\ HasKey(a.cat_lookup, ret.matched_name)
            /\ ret.category_id = Get(a.cat_lookup, ret.matched_name, <<>>)
            /\ \E c \in FuzzyCandidates(a, val) :
                  /\ Score(Lower(c), Lower(ret.matched_name)) >= a.fuzzy_threshold
                  /\ ret.method = m_fuzzy(Score(Lower(c), Lower(ret.matched_name)))
      [] layer = "unmatched" -> ret = Resolved(<<>>, <<>>, m_unmatched)

\* C24 (as claimed): the call returns a result of the first layer that
\* matches, in the order manual table, exact match, regex stripping,
\* spelling fix, fuzzy match; a layer that is switched off never gives the
\* result, a fuzzy match is returned with a score of at least the threshold,
\* and the method is "unmatched", with an empty id and name, exactly when no
\* enabled layer matches.
C24_LayersInOrder ==
    CategoryDone =>
        /\ MethodLayer(rc_ret.method) = FirstLayer(rc_args, StrippedClass)
        /\ ResultOf(rc_args, StrippedClass, FirstLayer(rc_args, StrippedClass), rc_ret)
        /\ ~rc_args.use_regex => MethodLayer(rc_ret.method) # "regex"
        /\ ~rc_args.use_fuzzy => MethodLayer(rc_ret.method) # "fuzzy"
        /\ rc_ret.method = m_unmatched <=>
              \A i \in 1..Len(Layers) : ~LayerMatches(rc_args, StrippedClass, Layers[i])

(***************************************************************************)
(* Claims about strip_modifiers, checked under SpecStrip.                  *)
(***************************************************************************)
\* a pattern of STRIP_PATTERNS matches t
StripPatternMatches(t) ==
    \/ \E i \in 1..Len(PrefixPatterns) : PrefixMatchEnd(t, PrefixPatterns[i]) # 0
    \/ SetSuffixStart(t) # 0
    \/ AmpSetSuffixStart(t) # 0

\* C25 (as claimed): what strip_modifiers returns holds no leading modifier
\* and no trailing "set" suffix of STRIP_PATTERNS any more, in whatever
\* order they stood in the class name, and strip_modifiers called on it
\* returns it unchanged.
C25_StripIdempotent ==
    sm_pc = "returned" =>
        /\ ~StripPatternMatches(sm_ret)
        /\ sm_calls = 2 => sm_ret = sm_text

(***************************************************************************)
(* Claims about the SKU Category Splitter, checked under SpecSplitter.     *)
(***************************************************************************)
\* Generate CSV Zip was pressed and its handler is through
Generated == sp_pc \in {"done", "error"}
\* the members of the zip file that hold row i
MembersWith(i) == {m \in 1..Len(sp_zip) : i \in sp_zip[m].rows}
RECURSIVE DataRows(_)
\* the data rows of the members, added up
DataRows(zip) == IF zip = <<>> THEN 0 ELSE Cardinality(Head(zip).rows) + DataRows(Tail(zip))

\* C26 (as claimed): after Generate CSV Zip every input row is in exactly
\* one CSV of the zip file, the one written for its category value, a
\* missing category included; every distinct category value has one file
\* and no two files have the same name; and the data rows of all files add
\* up to the number of input rows.
C26_SplitterPartitions ==
    Generated =>
        /\ \A i \in 1..Len(sp_in.rows) :
              /\ Cardinality(MembersWith(i)) = 1
              /\ \A m \in MembersWith(i) : sp_zip[m].cat = sp_in.rows[i]
        /\ Len(sp_zip) = Len(Unique(sp_in.rows, <<>>))
        /\ \A m, n \in 1..Len(sp_zip) : sp_zip[m].name = sp_zip[n].name => m = n
        /\ DataRows(sp_zip) = Len(sp_in.rows)

(***************************************************************************)
(* Claims about the Scrape Category button, checked under SpecButton.      *)
(***************************************************************************)
\* the well-formed category URLs of the model,
\* https://www.jumia.co.ke/<category>/; the two the placeholder of line 321
\* offers are among them
CategoryUrls ==
    {s_https \o <<":","/","/">> \o h_www_jumia \o <<"/">> \o c \o <<"/">> : c \in CategorySlugs}

\* C16 (as claimed): every well-formed Jumia Kenya category URL passes the
\* validation and reaches link collection, where it is fetched; a URL that
\* is refused is not one of them and nothing is fetched for it.
C16_CategoryUrlsAccepted ==
    /\ sc_pc \notin {"idle", "start"} /\ sc_url \in CategoryUrls =>
          sc_pc = "collecting" /\ sc_fetched = {sc_url}
    /\ sc_pc \in {"invalid", "excluded"} => sc_fetched = {}

====
